---- MODULE Spec2Model ----
(***************************************************************************)
(* Model of the ProofTamilRunner IME suggestion service.                   *)
(*                                                                         *)
(* Strings are sequences of Unicode code points, so that the regular       *)
(* expression tamil_regex, str.strip, str.isalnum, str.replace and the     *)
(* cache-key join are modelled by what they do to the characters.          *)
(* Scores are integers in hundredths (100 is 1.0).                         *)
(***************************************************************************)
EXTENDS Integers, Sequences, FiniteSets, TLC

(***************************************************************************)
(* Characters and strings                                                  *)
(***************************************************************************)

\* str.isspace / the \s class of a str pattern, restricted to ASCII
Whitespace == {9, 10, 11, 12, 13, 28, 29, 30, 31, 32}

\* c.isascii() and c.isalnum()
IsAsciiAlnum(c) == (c >= 48 /\ c <= 57) \/ (c >= 65 /\ c <= 90) \/ (c >= 97 /\ c <= 122)

\* the character class of tamil_regex: [\u0B80-\u0BFF\s]
TamilBlockLo == 2944
TamilBlockHi == 3071
InTamilClass(c) == (c >= TamilBlockLo /\ c <= TamilBlockHi) \/ c \in Whitespace

\* tamil_regex.match(w): ^[\u0B80-\u0BFF\s]+$
tamil_regex(w) == Len(w) > 0 /\ \A i \in 1..Len(w) : InTamilClass(w[i])

DEPENDENT_VOWELS == {3006, 3007, 3008, 3009, 3010, 3014, 3015, 3016, 3018, 3019, 3020}
TAMIL_VOWELS == {2949, 2950, 2951, 2952, 2953, 2954, 2958, 2959, 2960, 2962, 2963, 2964}
TAMIL_VOWEL_SIGNS == {3006, 3007, 3008, 3009, 3010, 3014, 3015, 3016, 3018, 3019, 3020}
Pulli == 3021
TamilTTA == 2975

\* a local variable of the code: the value is computed once and then used
Let(value, F(_)) == CHOOSE result \in {F(bound) : bound \in {value}} : TRUE
Let2(value1, value2, F(_, _)) ==
    CHOOSE result \in {F(bound1, bound2) : bound1 \in {value1}, bound2 \in {value2}} : TRUE

RECURSIVE LStrip(_)
LStrip(s) == IF s # <<>> /\ Head(s) \in Whitespace THEN LStrip(Tail(s)) ELSE s

RECURSIVE RStrip(_)
RStrip(s) == IF s # <<>> /\ s[Len(s)] \in Whitespace THEN RStrip(SubSeq(s, 1, Len(s) - 1)) ELSE s

\* no trimming at all
Strip_None(s) == s

\* str.strip()
Strip(s) == Let(LStrip(s), LAMBDA lead : RStrip(lead))

\* str.lower() (ASCII letters; Tamil has no case)
Lower(s) ==
    Let(s, LAMBDA str :
        SubSeq([i \in 1..Len(str) |-> IF str[i] >= 65 /\ str[i] <= 90 THEN str[i] + 32 ELSE str[i]],
               1, Len(str)))

StartsWith(s, p) == Len(s) >= Len(p) /\ SubSeq(s, 1, Len(p)) = p

EndsWith(s, p) == Len(s) >= Len(p) /\ SubSeq(s, Len(s) - Len(p) + 1, Len(s)) = p

\* str.replace(old, new) for a non-empty old: leftmost non-overlapping
\* occurrences; the text up to the first occurrence is copied, the occurrence
\* replaced, and the scan goes on behind it
RECURSIVE Replace(_, _, _)
Replace(s, old, new) ==
    Let({i \in 1..(Len(s) - Len(old) + 1) : SubSeq(s, i, i + Len(old) - 1) = old}, LAMBDA found :
        IF found = {} THEN s
        ELSE Let(CHOOSE i \in found : \A j \in found : i <= j, LAMBDA first :
                 SubSeq(s, 1, first - 1) \o new
                     \o Replace(SubSeq(s, first + Len(old), Len(s)), old, new)))

\* a total order on strings, used to enumerate sets of strings: the first
\* position at which they differ decides, a proper prefix comes first
LexLess(a, b) ==
    Let({i \in 1..(IF Len(a) <= Len(b) THEN Len(a) ELSE Len(b)) : a[i] # b[i]}, LAMBDA differ :
        IF differ = {} THEN Len(a) < Len(b)
        ELSE Let(CHOOSE i \in differ : \A j \in differ : i <= j, LAMBDA first :
                 a[first] < b[first]))

\* first n elements of a list: xs[:n] for n >= 0
Take(xs, n) == Let(xs, LAMBDA ys : SubSeq(ys, 1, IF n < Len(ys) THEN n ELSE Len(ys)))

Max2(a, b) == IF a >= b THEN a ELSE b
Min2(a, b) == IF a <= b THEN a ELSE b

SeqRange(xs) == {xs[i] : i \in 1..Len(xs)}

(***************************************************************************)
(* Validity filter                                                         *)
(***************************************************************************)

has_invalid_vowel_sequence(word) ==
    \E i \in 2..Len(word) : word[i - 1] \in DEPENDENT_VOWELS /\ word[i] \in DEPENDENT_VOWELS

ShortTokenLen == 2
ShortMaxLen == 3
LongMaxLen == 6

\* the per-item test of filter_tamil_suggestions; s is a suggestion record
FilterAdmits(s, token) ==
    Let(Strip(s.word), LAMBDA w :
        /\ w # <<>>
        /\ ~ \E i \in 1..Len(w) : IsAsciiAlnum(w[i])
        /\ ~ has_invalid_vowel_sequence(w)
        /\ Len(w) <= (IF Len(token) <= ShortTokenLen THEN ShortMaxLen ELSE LongMaxLen))

filter_tamil_suggestions(suggestions, token) ==
    LET Keep(s) == FilterAdmits(s, token) IN SelectSeq(suggestions, Keep)

(***************************************************************************)
(* Iteration order of a Python set of strings.  str hashes are salted once *)
(* per process, so the order is a function of the process's hash seed and  *)
(* of the set; the model orders a set by a seeded hash, ties by LexLess.   *)
(***************************************************************************)

HashMod == 31

RECURSIVE StrHashRange(_, _, _, _, _)
\* the hash of the characters i..j, given the hash h of those behind j
StrHashRange(seed, s, i, j, h) ==
    IF i > j THEN h
    ELSE IF i = j THEN (h * 7 + s[i] * (i + seed)) % HashMod
    ELSE Let(StrHashRange(seed, s, (i + j) \div 2 + 1, j, h), LAMBDA behind :
             StrHashRange(seed, s, i, (i + j) \div 2, behind))

StrHashFrom(seed, s, i) == StrHashRange(seed, s, i, Len(s), seed)

StrHash(seed, s) == StrHashFrom(seed, s, 1)

\* keyed entries <<hash, string>> are iterated by hash, ties by LexLess
KeyedBefore(x, y) == IF x[1] # y[1] THEN x[1] < y[1] ELSE LexLess(x[2], y[2])

\* the strings of K in that order: an entry stands at the position given by
\* the number of entries before it
KeyedToList(K) ==
    Let(K, LAMBDA entries :
    Let([x \in entries |-> Cardinality({y \in entries : KeyedBefore(y, x)})], LAMBDA before :
        SubSeq([i \in 1..Cardinality(entries) |-> (CHOOSE x \in entries : before[x] = i - 1)[2]],
               1, Cardinality(entries))))

\* list(some_set)
SetToList(seed, S) == Let({<<StrHash(seed, x), x>> : x \in S}, LAMBDA K : KeyedToList(K))

(***************************************************************************)
(* Variant generator and script-form expander                              *)
(***************************************************************************)

LatinVowels == {97, 105, 117, 101, 111}

\* the eleven endings, in source order: i ai a u oo ta tai tta ttai di ti
Endings ==
    << <<105>>, <<97, 105>>, <<97>>, <<117>>, <<111, 111>>, <<116, 97>>, <<116, 97, 105>>,
       <<116, 116, 97>>, <<116, 116, 97, 105>>, <<100, 105>>, <<116, 105>> >>

max_variants == 64

\* the set built by _latin_variants for an already stripped and lowered text
VariantSet(text) ==
    {text}
    \cup {SubSeq(text, 1, i) \o <<text[i], text[i]>> \o SubSeq(text, i + 1, Len(text)) :
             i \in {j \in 1..Len(text) : text[j] \in LatinVowels}}
    \cup {Replace(text, <<116>>, <<116, 116>>),
          Replace(text, <<116, 104>>, <<116>>),
          Replace(text, <<100>>, <<116>>)}
    \cup {text \o Endings[k] : k \in 1..Len(Endings)}

_latin_variants(seed, rawText) ==
    Let(Lower(Strip(rawText)), LAMBDA text :
        IF text = <<>> THEN <<>> ELSE Take(SetToList(seed, VariantSet(text)), max_variants))

ends_with_tamil_vowel(word) ==
    word # <<>> /\ (word[Len(word)] \in TAMIL_VOWELS \/ word[Len(word)] \in TAMIL_VOWEL_SIGNS)

\* the four suffixes: sign i, sign ai, sign u, sign aa
Suffixes == <<3007, 3016, 3009, 3006>>

_tamil_suffix_expansion(seed, word) ==
    IF word = <<>> THEN <<>>
    ELSE IF ends_with_tamil_vowel(word) THEN <<word>>
    ELSE SetToList(seed,
                   {word}
                   \cup {word \o <<Suffixes[k]>> : k \in 1..Len(Suffixes)}
                   \cup (IF EndsWith(word, <<TamilTTA, Pulli>>)
                         THEN {SubSeq(word, 1, Len(word) - 1) \o <<TamilTTA, Pulli, TamilTTA>>,
                               SubSeq(word, 1, Len(word) - 1) \o <<TamilTTA, Pulli, TamilTTA, 3016>>}
                         ELSE {}))

(***************************************************************************)
(* Scorer.  Component scores are in thousandths, the result in hundredths. *)
(***************************************************************************)

\* data/ta_freq.tsv is absent, so _load_freq returns ({}, 0)
FREQ_DICT == {}
FREQ_MAX == 0
BASELINE == 20

freq_score(word) == BASELINE

has_freq(word) == word \in FREQ_DICT

Min3(x, y, z) == Min2(Min2(x, y), z)

RECURSIVE LevCurr(_, _, _, _)
\* the inner loop: curr.append(min(curr[j-1] + 1, prev[j] + 1, prev[j-1] + cost));
\* rows are 1-based here, so curr[j] holds the code's curr[j-1]
LevCurr(curr, prev, ca, b) ==
    IF Len(curr) > Len(b) THEN curr
    ELSE Let(Append(curr, Min3(curr[Len(curr)] + 1, prev[Len(curr) + 1] + 1,
                               prev[Len(curr)] + (IF ca = b[Len(curr)] THEN 0 ELSE 1))),
             LAMBDA longer : LevCurr(longer, prev, ca, b))

\* one row of the dynamic programme: curr = [i] followed by the inner loop
LevRow(prev, ca, b, i) == LevCurr(<<i>>, prev, ca, b)

RECURSIVE LevRows(_, _, _, _)
\* the outer loop over the characters of a; returns the last row
LevRows(prev, a, b, i) ==
    IF i > Len(a) THEN prev
    ELSE Let(LevRow(prev, a[i], b, i), LAMBDA curr : LevRows(curr, a, b, i + 1))

_levenshtein(a, b) ==
    IF a = b THEN 0
    ELSE IF a = <<>> THEN Len(b)
    ELSE IF b = <<>> THEN Len(a)
    ELSE Let(SubSeq([n \in 1..(Len(b) + 1) |-> n - 1], 1, Len(b) + 1), LAMBDA prev :
             LevRows(prev, a, b, 1)[Len(b) + 1])

_length_score(word) ==
    IF Len(word) <= 1 THEN 300
    ELSE IF Len(word) <= 6 THEN 1000
    ELSE IF Len(word) <= 10 THEN 700
    ELSE 500

_form_score(word) ==
    IF word = <<>> THEN 500
    ELSE IF word[Len(word)] = Pulli /\ ~ has_freq(word) THEN 600
    ELSE 1000

\* round(x, 2) of the exact value num/den thousandths, to hundredths, ties to even
RoundHundredths(num, den) ==
    LET d == 10 * den
        q == num \div d
        r == num % d
    IN IF 2 * r > d THEN q + 1
       ELSE IF 2 * r < d THEN q
       ELSE IF q % 2 = 0 THEN q ELSE q + 1

\* 0.45*freq + 0.30*phon + 0.15*form + 0.10*length, clamped and rounded
_score_candidate(word, src_variant) ==
    Let2(Lower(src_variant), Lower(word), LAMBDA a, b :
        \* phon = 1 - dist/m as the fraction pn/pd, 0.5 when a string is empty
        Let2(IF a = <<>> \/ b = <<>> THEN 1 ELSE Max2(Len(a), Len(b)) - _levenshtein(a, b),
             IF a = <<>> \/ b = <<>> THEN 2 ELSE Max2(Len(a), Len(b)),
             LAMBDA pn, pd :
                Let(RoundHundredths((45 * freq_score(word) + 15 * _form_score(word)
                                        + 10 * _length_score(word)) * pd + 30 * 1000 * pn,
                                    100 * pd),
                    LAMBDA rounded : Min2(100, Max2(0, rounded)))))

(***************************************************************************)
(* LRUCache: _store is the OrderedDict as a list of entries, least         *)
(* recently used first; an entry is [key, expiry, value].                  *)
(***************************************************************************)

NewCache == [store |-> <<>>, cache_hits |-> 0, cache_misses |-> 0]

KeyIndex(store, key) ==
    IF \E i \in 1..Len(store) : store[i].key = key
    THEN CHOOSE i \in 1..Len(store) : store[i].key = key
    ELSE 0

RemoveAt(store, i) == SubSeq(store, 1, i - 1) \o SubSeq(store, i + 1, Len(store))

HasKey(c, key) == KeyIndex(c.store, key) # 0

\* the set of (key, expiry, value) entries, without the recency order
Entries(c) == SeqRange(c.store)

RECURSIVE _evict_KeepOneMore(_, _)
\* an evict loop that stops one entry above max_size
_evict_KeepOneMore(store, max_size) ==
    IF Len(store) > max_size + 1 /\ store # <<>>
    THEN _evict_KeepOneMore(Tail(store), max_size)
    ELSE store

RECURSIVE _evict(_, _)
\* while len(self._store) > self.max_size: popitem(last=False)
_evict(store, max_size) ==
    IF Len(store) > max_size /\ store # <<>> THEN _evict(Tail(store), max_size) ELSE store

\* get that treats an entry as expired at its expiry instant (expiry <= now)
LRUGet_ExpiryOffByOne(c, key, t) ==
    Let(KeyIndex(c.store, key), LAMBDA i :
        IF i = 0
        THEN [cache |-> [c EXCEPT !.cache_misses = @ + 1], found |-> FALSE, value |-> <<>>]
        ELSE IF c.store[i].expiry <= t
        THEN [cache |-> [c EXCEPT !.store = RemoveAt(c.store, i), !.cache_misses = @ + 1],
              found |-> FALSE, value |-> <<>>]
        ELSE [cache |-> [c EXCEPT !.store = Append(RemoveAt(c.store, i), c.store[i]),
                                  !.cache_hits = @ + 1],
              found |-> TRUE, value |-> c.store[i].value])

\* get with the expiry comparison inverted (expiry > now)
LRUGet_Inverted(c, key, t) ==
    Let(KeyIndex(c.store, key), LAMBDA i :
        IF i = 0
        THEN [cache |-> [c EXCEPT !.cache_misses = @ + 1], found |-> FALSE, value |-> <<>>]
        ELSE IF c.store[i].expiry > t
        THEN [cache |-> [c EXCEPT !.store = RemoveAt(c.store, i), !.cache_misses = @ + 1],
              found |-> FALSE, value |-> <<>>]
        ELSE [cache |-> [c EXCEPT !.store = Append(RemoveAt(c.store, i), c.store[i]),
                                  !.cache_hits = @ + 1],
              found |-> TRUE, value |-> c.store[i].value])

\* get that never looks at the expiry
LRUGet_NoExpiry(c, key, t) ==
    Let(KeyIndex(c.store, key), LAMBDA i :
        IF i = 0
        THEN [cache |-> [c EXCEPT !.cache_misses = @ + 1], found |-> FALSE, value |-> <<>>]
        ELSE [cache |-> [c EXCEPT !.store = Append(RemoveAt(c.store, i), c.store[i]),
                                  !.cache_hits = @ + 1],
              found |-> TRUE, value |-> c.store[i].value])

\* get that leaves a hit entry where it is in the recency order
LRUGet_NoPromote(c, key, t) ==
    Let(KeyIndex(c.store, key), LAMBDA i :
        IF i = 0
        THEN [cache |-> [c EXCEPT !.cache_misses = @ + 1], found |-> FALSE, value |-> <<>>]
        ELSE IF c.store[i].expiry < t
        THEN [cache |-> [c EXCEPT !.store = RemoveAt(c.store, i), !.cache_misses = @ + 1],
              found |-> FALSE, value |-> <<>>]
        ELSE [cache |-> [c EXCEPT !.cache_hits = @ + 1],
              found |-> TRUE, value |-> c.store[i].value])

\* get: returns the new cache and the outcome [found, value]
LRUGet(c, key, t) ==
    Let(KeyIndex(c.store, key), LAMBDA i :
        IF i = 0
        THEN [cache |-> [c EXCEPT !.cache_misses = @ + 1], found |-> FALSE, value |-> <<>>]
        ELSE IF c.store[i].expiry < t
        THEN [cache |-> [c EXCEPT !.store = RemoveAt(c.store, i), !.cache_misses = @ + 1],
              found |-> FALSE, value |-> <<>>]
        ELSE [cache |-> [c EXCEPT !.store = Append(RemoveAt(c.store, i), c.store[i]),
                                  !.cache_hits = @ + 1],
              found |-> TRUE, value |-> c.store[i].value])

\* set(key, value) with ttl = default_ttl
LRUSet(c, key, value, t, default_ttl, max_size) ==
    Let2(KeyIndex(c.store, key), [key |-> key, expiry |-> t + default_ttl, value |-> value],
         LAMBDA i, e :
            Let(IF i = 0 THEN Append(c.store, e) ELSE Append(RemoveAt(c.store, i), e),
                LAMBDA placed : [c EXCEPT !.store = _evict(placed, max_size)]))

LRUClear(c) == NewCache

RECURSIVE JoinParts(_)
\* "||".join(parts)
JoinParts(parts) ==
    IF parts = <<>> THEN <<>>
    ELSE IF Len(parts) = 1 THEN parts[1]
    ELSE parts[1] \o <<124, 124>> \o JoinParts(Tail(parts))

\* sha256(...).hexdigest() is taken to be injective: the key is the joined string
make_cache_key(parts) == JoinParts(parts)

RECURSIVE NatToStr(_)
NatToStr(n) == IF n < 10 THEN <<48 + n>> ELSE NatToStr(n \div 10) \o <<48 + (n % 10)>>

\* str(n)
IntToStr(n) == IF n < 0 THEN <<45>> \o NatToStr(0 - n) ELSE NatToStr(n)

(***************************************************************************)
(* Service configuration (app/core/config.py, TransliterationService)      *)
(***************************************************************************)

MAX_TEXT_LEN == 64
CACHE_MAX_SIZE == 5000
CACHE_TTL_SECONDS == 600
RESPONSE_CACHE_MAX_SIZE == 20000
RESPONSE_CACHE_TTL == 1800
VARIANT_CACHE_MAX_SIZE == 5000
VARIANT_CACHE_TTL == 900

\* the flag without the strip
TRANSLITERATOR_ENABLED_NoStrip(base) == base # <<>>

\* settings.TRANSLITERATOR_ENABLED = bool(TRANSLITERATOR_BASE_URL.strip())
TRANSLITERATOR_ENABLED(base) == Strip(base) # <<>>

\* build_client() returns None when the base URL is empty
build_client(base) == base # <<>>

(***************************************************************************)
(* The script-conversion primitive (aksharamukha process) is external.     *)
(* It is one of a family of behaviours, fixed for the life of the process: *)
(*   missing   the import failed, process is None                          *)
(*   raises    every call raises                                           *)
(*   raises_u  a call raises when the token contains the letter u          *)
(*   empty     every call returns the empty string                         *)
(*   latin     returns the token unchanged                                 *)
(*   letters   maps vowels to independent vowels, consonants to letters    *)
(*   signs     maps vowels to dependent vowel signs, consonants to letters *)
(* In the last two a word-final consonant carries the pulli.               *)
(***************************************************************************)

PrimModes == {"missing", "raises", "raises_u", "empty", "latin", "letters", "signs"}

TamilConsonant(c) ==
    CASE c = 107 -> 2965
      [] c = 116 -> 2975
      [] c = 100 -> 2980
      [] c = 104 -> 3001
      [] OTHER -> 2985

TamilVowel(c) ==
    CASE c = 97 -> 2949
      [] c = 105 -> 2951
      [] c = 117 -> 2953
      [] c = 101 -> 2958
      [] OTHER -> 2962

TamilSign(c) ==
    CASE c = 97 -> 3006
      [] c = 105 -> 3007
      [] c = 117 -> 3009
      [] c = 101 -> 3014
      [] OTHER -> 3018

IsLatinLetter(c) == (c >= 65 /\ c <= 90) \/ (c >= 97 /\ c <= 122)

RECURSIVE ConvertFrom(_, _, _)
ConvertFrom(mode, s, i) ==
    IF i > Len(s) THEN <<>>
    ELSE LET c == s[i]
             out == IF ~ IsLatinLetter(c) THEN <<c>>
                    ELSE IF c \in LatinVowels
                    THEN <<IF mode = "signs" THEN TamilSign(c) ELSE TamilVowel(c)>>
                    ELSE IF i = Len(s) THEN <<TamilConsonant(c), Pulli>>
                    ELSE <<TamilConsonant(c)>>
         IN out \o ConvertFrom(mode, s, i + 1)

\* process("ISO", "Tamil", text): [raised, out]
Process(mode, text) ==
    CASE mode = "raises" -> [raised |-> TRUE, out |-> <<>>]
      [] mode = "raises_u" ->
            IF 117 \in SeqRange(text) THEN [raised |-> TRUE, out |-> <<>>]
            ELSE [raised |-> FALSE,
                  out |-> Let(Lower(text), LAMBDA low : ConvertFrom("letters", low, 1))]
      [] mode = "empty" -> [raised |-> FALSE, out |-> <<>>]
      [] mode = "latin" -> [raised |-> FALSE, out |-> text]
      [] OTHER -> [raised |-> FALSE, out |-> Let(Lower(text), LAMBDA low : ConvertFrom(mode, low, 1))]

\* AksharaAdapter.transliterate: [raised, outs, called]
AdapterTransliterate(mode, text) ==
    IF mode = "missing" THEN [raised |-> FALSE, outs |-> <<>>, called |-> FALSE]
    ELSE Let(Process(mode, text), LAMBDA p :
             IF p.raised THEN [raised |-> TRUE, outs |-> <<>>, called |-> TRUE]
             ELSE IF p.out = <<>> THEN [raised |-> FALSE, outs |-> <<>>, called |-> TRUE]
             ELSE [raised |-> FALSE, outs |-> <<p.out>>, called |-> TRUE])

(***************************************************************************)
(* generate_ime_suggestions.  The loop state g is                          *)
(*   [vc, tamil_set, scored, prim_calls, raised]                           *)
(***************************************************************************)

VariantTag == <<118, 97, 114, 105, 97, 110, 116>>

\* translit_cached(token): [vc, outs, raised, called]
translit_cached(mode, vc, token, t) ==
    Let(make_cache_key(<<VariantTag, token>>), LAMBDA ck :
    Let(LRUGet(vc, ck, t), LAMBDA got :
        IF got.found /\ got.value # <<>>
        THEN [vc |-> got.cache, outs |-> got.value, raised |-> FALSE, called |-> FALSE]
        ELSE Let(AdapterTransliterate(mode, token), LAMBDA a :
                 IF a.raised
                 THEN [vc |-> got.cache, outs |-> <<>>, raised |-> TRUE, called |-> a.called]
                 ELSE [vc |-> LRUSet(got.cache, ck, a.outs, t, VARIANT_CACHE_TTL, VARIANT_CACHE_MAX_SIZE),
                       outs |-> a.outs, raised |-> FALSE, called |-> a.called])))

RECURSIVE AddOuts(_, _, _, _)
\* for out in outs: if out and tamil_regex.match(out) and out not in tamil_set: ...
AddOuts(tamil_set, scored, outs, src) ==
    IF outs = <<>> THEN [tamil_set |-> tamil_set, scored |-> scored]
    ELSE IF Len(outs) = 1
    THEN Let(outs[1], LAMBDA out :
             IF out # <<>> /\ tamil_regex(out) /\ out \notin tamil_set
             THEN [tamil_set |-> tamil_set \cup {out},
                   scored |-> Append(scored, [word |-> out, score |-> _score_candidate(out, src)])]
             ELSE [tamil_set |-> tamil_set, scored |-> scored])
    ELSE \* the loop over the first half of outs, then over the second half
         Let(AddOuts(tamil_set, scored, SubSeq(outs, 1, Len(outs) \div 2), src), LAMBDA half :
             AddOuts(half.tamil_set, half.scored,
                     SubSeq(outs, Len(outs) \div 2 + 1, Len(outs)), src))

NativeCap == 80

\* one conversion of the base token or of a variant, with its outputs scored
ConvertStep(mode, g, token, t) ==
    Let(translit_cached(mode, g.vc, token, t), LAMBDA r :
        IF r.raised
        THEN [vc |-> r.vc, tamil_set |-> g.tamil_set, scored |-> g.scored,
              prim_calls |-> g.prim_calls + (IF r.called THEN 1 ELSE 0), raised |-> TRUE]
        ELSE Let(AddOuts(g.tamil_set, g.scored, r.outs, token), LAMBDA added :
                 [vc |-> r.vc, tamil_set |-> added.tamil_set, scored |-> added.scored,
                  prim_calls |-> g.prim_calls + (IF r.called THEN 1 ELSE 0), raised |-> FALSE]))

RECURSIVE VariantLoop(_, _, _, _)
VariantLoop(mode, g, variants, t) ==
    IF variants = <<>> \/ g.raised THEN g
    ELSE Let2(ConvertStep(mode, g, Head(variants), t), Tail(variants), LAMBDA g2, rest :
            IF g2.raised \/ Cardinality(g2.tamil_set) > NativeCap THEN g2
            ELSE VariantLoop(mode, g2, rest, t))

RECURSIVE Flatten(_)
Flatten(xss) == IF xss = <<>> THEN <<>> ELSE Head(xss) \o Flatten(Tail(xss))

\* place x before the elements of equal score
InsertByScore_Unstable(sorted, x) ==
    Let2(sorted, x, LAMBDA ys, item :
        Let(Cardinality({j \in 1..Len(ys) : ys[j].score > item.score}), LAMBDA k :
            SubSeq(ys, 1, k) \o <<item>> \o SubSeq(ys, k + 1, Len(ys))))

\* place x after every element whose score is not smaller (stable, descending)
InsertByScore(sorted, x) ==
    Let2(sorted, x, LAMBDA ys, item :
        Let(Cardinality({j \in 1..Len(ys) : ys[j].score >= item.score}), LAMBDA k :
            SubSeq(ys, 1, k) \o <<item>> \o SubSeq(ys, k + 1, Len(ys))))

RECURSIVE SortByScoreDesc(_, _)
\* sorted(xs, key=score, reverse=True), accumulated left to right
SortByScoreDesc(acc, xs) ==
    IF xs = <<>> THEN acc
    ELSE IF Len(xs) = 1 THEN InsertByScore(acc, xs[1])
    ELSE \* the first half of xs, then the second half
         Let(SortByScoreDesc(acc, SubSeq(xs, 1, Len(xs) \div 2)), LAMBDA half :
             SortByScoreDesc(half, SubSeq(xs, Len(xs) \div 2 + 1, Len(xs))))

\* a merge that keeps every item
DedupMax_KeepAll(acc, xs) == acc \o xs

RECURSIVE DedupMax(_, _)
\* the dict fold: first insertion fixes the position, a larger score replaces the item
DedupMax(acc, xs) ==
    IF xs = <<>> THEN acc
    ELSE IF Len(xs) = 1
    THEN Let2(acc, xs[1], LAMBDA dict, x :
         Let(IF \E j \in 1..Len(dict) : dict[j].word = x.word
             THEN CHOOSE j \in 1..Len(dict) : dict[j].word = x.word ELSE 0, LAMBDA i :
             IF i = 0 THEN Append(dict, x)
             ELSE IF x.score > dict[i].score THEN [dict EXCEPT ![i] = x]
             ELSE dict))
    ELSE \* the loop over the first half of xs, then over the second half
         Let(DedupMax(acc, SubSeq(xs, 1, Len(xs) \div 2)), LAMBDA half :
             DedupMax(half, SubSeq(xs, Len(xs) \div 2 + 1, Len(xs))))

CapFloor == 8
CapCeil == 10

\* the cap without its ceiling of 10
ResultCap_NoCeil(limit) == Max2(CapFloor, limit)

\* max(8, min(limit or 8, 10))
ResultCap(limit) == Max2(CapFloor, Min2(IF limit = 0 THEN CapFloor ELSE limit, CapCeil))

\* [suggestions, vc, prim_calls, raised]
generate_ime_suggestions(mode, seed, vc, text, limit, t) ==
    Let2(_latin_variants(seed, text),
         ConvertStep(mode, [vc |-> vc, tamil_set |-> {}, scored |-> <<>>, prim_calls |-> 0,
                            raised |-> FALSE], text, t),
         LAMBDA base_variants, g1 :
    Let(VariantLoop(mode, g1, base_variants, t), LAMBDA g2 :
        IF g2.raised
        THEN [suggestions |-> <<>>, vc |-> g2.vc, prim_calls |-> g2.prim_calls, raised |-> TRUE]
        ELSE
    Let(SetToList(seed, g2.tamil_set), LAMBDA natives :
    Let(Flatten(SubSeq([i \in 1..Len(natives) |-> _tamil_suffix_expansion(seed, natives[i])],
                       1, Len(natives))), LAMBDA expanded :
    Let(AddOuts(g2.tamil_set, g2.scored, expanded, text), LAMBDA g3 :
    Let(DedupMax(<<>>, g3.scored), LAMBDA dedup :
    Let(SortByScoreDesc(<<>>, dedup), LAMBDA sorted :
        [suggestions |-> Take(sorted, ResultCap(limit)),
         vc |-> g2.vc, prim_calls |-> g2.prim_calls, raised |-> FALSE])))))))

(***************************************************************************)
(* The remote runner.  A response is                                       *)
(*   [kind |-> "http_error"]  non-200 status, network error, timeout or    *)
(*                            undecodable body: client.transliterate raises*)
(*   [kind |-> "malformed"]   a body that is not an object, or whose       *)
(*                            "suggestions" is not a list                  *)
(*   [kind |-> "ok", suggestions |-> items]                                *)
(* An item is [shape, word, ta, wordType]: shape "dict" for an object,     *)
(* "empty" for a falsy item (None, {}), "notdict" for any other value;     *)
(* an absent or empty "word"/"ta" is <<>>; wordType "int" is a word that   *)
(* is a non-zero number instead of a string.                               *)
(***************************************************************************)

Item(word, ta) == [shape |-> "dict", word |-> word, ta |-> ta, wordType |-> "str"]
IntItem == [shape |-> "dict", word |-> <<>>, ta |-> <<>>, wordType |-> "int"]
EmptyItem == [shape |-> "empty", word |-> <<>>, ta |-> <<>>, wordType |-> "str"]
NotDictItem == [shape |-> "notdict", word |-> <<>>, ta |-> <<>>, wordType |-> "str"]

W_ka == <<2965>>
W_kaa == <<2965, 3006>>
W_stack == <<2965, 3006, 3007>>
W_latin == <<107, 97>>
W_mixed == <<2965, 97>>
W_long == <<2965, 2965, 2965, 2965, 2965, 2965, 2965>>
W_four == <<2965, 3006, 2965, 3006>>
W_space == <<32>>

OkResponse(items) == [kind |-> "ok", suggestions |-> items]
NoResponse == [kind |-> "none", suggestions |-> <<>>]

HttpError == [kind |-> "http_error", suggestions |-> <<>>]
Malformed == [kind |-> "malformed", suggestions |-> <<>>]
IntWordResponse == OkResponse(<<Item(W_ka, <<>>), IntItem>>)
LatinOnlyResponse == OkResponse(<<Item(W_latin, <<>>), Item(W_mixed, <<>>), EmptyItem>>)

RunnerResponses ==
    { HttpError,
      Malformed,
      OkResponse(<<Item(W_ka, <<>>), NotDictItem>>),
      IntWordResponse,
      LatinOnlyResponse,
      OkResponse(<<Item(W_latin, <<>>), Item(<<>>, W_kaa), Item(W_ka, <<>>), Item(W_kaa, W_ka)>>),
      OkResponse(<<Item(W_stack, <<>>)>>),
      OkResponse(<<Item(W_long, <<>>), Item(W_stack, <<>>)>>),
      OkResponse(<<Item(W_four, <<>>), Item(W_space, <<>>)>>) }

\* s.get("word") or s.get("ta")
ItemOut(s) == IF s.word # <<>> THEN s.word ELSE s.ta

\* lines 238-267: [used_runner, suggestions, failed, raw, survivors]
RunnerStage(resp, text, limit) ==
    LET fail(used) == [used_runner |-> used, suggestions |-> <<>>, failed |-> TRUE,
                       raw |-> <<>>, survivors |-> <<>>]
        truthy(s) == s.shape # "empty"
        ok(out) == out # <<>> /\ tamil_regex(out)
    IN IF resp.kind # "ok" THEN fail(FALSE)
       ELSE IF \E i \in 1..Len(resp.suggestions) : resp.suggestions[i].shape = "notdict"
       THEN fail(FALSE)
       ELSE Let(SelectSeq(resp.suggestions, truthy), LAMBDA items :
            IF \E i \in 1..Len(items) : items[i].wordType = "int"
            THEN fail(TRUE)
            ELSE Let(SelectSeq([i \in 1..Len(items) |-> ItemOut(items[i])], ok), LAMBDA kept :
                 Let(SubSeq([i \in 1..Len(kept) |-> [word |-> kept[i], score |-> 100]], 1, Len(kept)),
                     LAMBDA raw_suggestions :
                 Let(filter_tamil_suggestions(raw_suggestions, text), LAMBDA filtered_suggestions :
                     [used_runner |-> TRUE,
                      suggestions |-> IF filtered_suggestions # <<>>
                                      THEN Take(filtered_suggestions, limit)
                                      ELSE Take(raw_suggestions, 1),
                      failed |-> FALSE,
                      raw |-> raw_suggestions,
                      survivors |-> filtered_suggestions]))))

\* lines 281-284: the suggestions after the local stage
LocalMerge(suggestions, ime_suggestions, text) ==
    Let(filter_tamil_suggestions(ime_suggestions, text), LAMBDA filtered_ime :
        IF filtered_ime # <<>> THEN suggestions \o filtered_ime
        ELSE IF suggestions = <<>> THEN Take(ime_suggestions, 1)
        ELSE suggestions)

\* the final filter without the vowel-sign check
FinalAdmits_NoVowelCheck(s) == s.word # <<>> /\ tamil_regex(s.word)

\* lines 299-308
FinalAdmits(s) == s.word # <<>> /\ tamil_regex(s.word) /\ ~ has_invalid_vowel_sequence(s.word)

\* lines 286-311: dedup, final filter, sort, cap
MergeRankCap(suggestions, limit) ==
    LET nonEmpty(s) == s.word # <<>>
    IN Let(SelectSeq(suggestions, nonEmpty), LAMBDA items :
       Let(DedupMax(<<>>, items), LAMBDA cleaned :
       Let(SelectSeq(cleaned, FinalAdmits), LAMBDA filtered :
       Let(SortByScoreDesc(<<>>, filtered), LAMBDA final : Take(final, ResultCap(limit))))))

\* limit = max(1, min(limit or 8, 12))
LimitDefault == 8
LimitMax == 12
ClampLimit(limit) == Max2(1, Min2(IF limit = 0 THEN LimitDefault ELSE limit, LimitMax))

(***************************************************************************)
(* State                                                                   *)
(***************************************************************************)

VARIABLES
    response_cache,   \* TransliterationService.response_cache
    variant_cache,    \* TransliterationService.variant_cache
    cache,            \* TransliterationService.cache (never used by the pipeline)
    base_url,         \* TRANSLITERATOR_BASE_URL of the process
    prim,             \* behaviour of the conversion primitive in this process
    hash_seed,        \* str hash salt of the process
    runner,           \* what the remote runner answers in this run
    now,              \* time.time()
    calls,            \* number of transliterate calls made so far
    ret               \* inputs, result and trace of the latest transliterate call

VARIABLES
    lru,              \* an LRUCache instance: _store, cache_hits, cache_misses
    lru_conf,         \* its max_size and default_ttl
    clock,            \* time.time() seen by the instance and by the rate limiter
    ops,              \* number of operations started so far
    last,             \* the latest completed operation and its outcome
    last_set,         \* per key, the value and expiry given by the latest set
    used_at           \* per key, the number of the latest operation that used it

VARIABLES
    threads,          \* per caller thread: position in get/set/clear and its locals
    lock_owner,       \* LRUCache._lock: the thread inside, 0 when free
    lin,              \* the instance after the same operations run one at a time
    running           \* the coroutine the event loop is executing, 0 when it is idle

VARIABLES
    environ,          \* os.environ of the process: API_KEY_SECRET, CLIENT_ID, API_KEY
    buckets,          \* RateLimiter.buckets
    admitted,         \* per client, the instants at which allow returned True
    handled,          \* number of requests passed to call_next
    reply             \* the latest request to the middleware and its response

pipe_vars == <<response_cache, variant_cache, cache, base_url, prim, hash_seed, runner, now, calls, ret>>
lru_vars == <<lru, lru_conf, clock, ops, last, last_set, used_at>>
thread_vars == <<threads, lock_owner, lin, running>>
gate_vars == <<environ, buckets, admitted, handled, reply>>

vars == <<pipe_vars, lru_vars, thread_vars, gate_vars>>

MaxCalls == 2
MaxTime == 1801
MaxSeed == 1

\* requests: raw text, mode (None or a string), raw limit
T_blank == <<32, 32>>
T_a == <<32, 97>>
T_kat == <<107, 97, 116>>
T_long == [i \in 1..(MAX_TEXT_LEN + 1) |-> 97]

ModeSpoken == [none |-> FALSE, str |-> <<115, 112, 111, 107, 101, 110>>]
ModeNone == [none |-> TRUE, str |-> <<>>]

Limits == {0, 3, 9, 13}

Request(rawText, mode, rawLimit) == [text |-> rawText, mode |-> mode, limit |-> rawLimit]

Requests ==
    {Request(T_kat, ModeSpoken, lim) : lim \in Limits}
    \cup {Request(T_a, ModeSpoken, -1)}
    \cup {Request(tx, ModeSpoken, 0) : tx \in {T_blank, T_long}}
    \cup {Request(T_a, ModeNone, 0), Request(T_long, ModeNone, 0)}

TickSteps == {RESPONSE_CACHE_TTL, RESPONSE_CACHE_TTL + 1}

\* The environments of a run: the runner off with every primitive (and, for
\* the primitive that maps to letters, every hash seed), a blank base
\* URL, the runner on with every answer and a working primitive, and the
\* runner on with a raising primitive for answers that lead to local
\* generation.
Environment(base, resp, mode, seed) ==
    [base_url |-> base, runner |-> resp, prim |-> mode, hash_seed |-> seed]

UrlUnset == <<>>
UrlBlank == <<32>>
UrlSet == <<104, 116, 116, 112, 58, 47, 47, 114>>

Environments ==
    {Environment(UrlUnset, NoResponse, m, 0) : m \in PrimModes}
    \cup {Environment(UrlUnset, NoResponse, "letters", sd) : sd \in 0..MaxSeed}
    \cup {Environment(UrlBlank, NoResponse, "letters", 0)}
    \cup {Environment(UrlSet, resp, "letters", 0) : resp \in RunnerResponses}
    \cup {Environment(UrlSet, resp, "raises", 0) :
              resp \in {HttpError, IntWordResponse, LatinOnlyResponse}}

(***************************************************************************)
(* Components at rest: an LRUCache instance nobody calls, no caller        *)
(* threads, and a middleware that has seen no request.                     *)
(***************************************************************************)

\* cache keys and values of the instance under study
K1 == <<107, 49>>
K2 == <<107, 50>>
K3 == <<107, 51>>
CacheKeys == {K1, K2, K3}
CacheValues == {<<1>>, <<2>>}

\* set(key, value) with the default ttl, and set(key, value, ttl=1)
SetInputs == {[value |-> <<1>>, ttl |-> 0], [value |-> <<2>>, ttl |-> 1]}

NoOp == [op |-> "none", key |-> <<>>, found |-> FALSE, result |-> <<>>,
         evicted |-> {}, present |-> FALSE]
NeverSet == [set |-> FALSE, value |-> <<>>, expiry |-> 0, op |-> 0]

LRUIdle ==
    /\ lru = NewCache
    /\ lru_conf = [max_size |-> CACHE_MAX_SIZE, default_ttl |-> CACHE_TTL_SECONDS]
    /\ clock = 0
    /\ ops = 0
    /\ last = NoOp
    /\ last_set = [k \in CacheKeys |-> NeverSet]
    /\ used_at = [k \in CacheKeys |-> 0]

ThreadsIdle ==
    /\ threads = <<>>
    /\ lock_owner = 0
    /\ lin = NewCache
    /\ running = 0

NoRequest == [path |-> <<>>, client_id |-> <<>>, api_key |-> <<>>, at |-> 0,
              status |-> 0, forwarded |-> FALSE, allow_calls |-> 0]

\* an unset variable is <<>>
NoEnviron == [API_KEY_SECRET |-> <<>>, CLIENT_ID |-> <<>>, API_KEY |-> <<>>,
              RATE_LIMIT_PER_MIN |-> 0]

GateIdle ==
    /\ environ = NoEnviron
    /\ buckets = <<>>
    /\ admitted = <<>>
    /\ handled = 0
    /\ reply = NoRequest

NoCall ==
    [text |-> <<>>, mode |-> ModeSpoken, limit |-> 0, at |-> 0, key |-> <<>>,
     suggestions |-> <<>>, used_runner |-> FALSE, cache_status |-> "idle", raised |-> FALSE,
     runner_calls |-> 0, runner_failed |-> FALSE, runner_raw |-> <<>>, runner_survivors |-> <<>>,
     local_ran |-> FALSE, local_suggestions |-> <<>>, prim_calls |-> 0, prim_raised |-> FALSE,
     resp_set |-> FALSE]

Init ==
    /\ response_cache = NewCache
    /\ variant_cache = NewCache
    /\ cache = NewCache
    /\ \E env \in Environments :
          /\ base_url = env.base_url
          /\ runner = env.runner
          /\ prim = env.prim
          /\ hash_seed = env.hash_seed
    /\ now = 0
    /\ calls = 0
    /\ ret = NoCall
    /\ LRUIdle /\ ThreadsIdle /\ GateIdle

runner_enabled == TRANSLITERATOR_ENABLED(base_url)
client == build_client(base_url)

(***************************************************************************)
(* TransliterationService.transliterate, as [rc, vc, ret]                  *)
(***************************************************************************)

\* lines 228-274: the runner stage, skipped when the runner is off or has no client
RunnerOrSkip(callRunner, resp, text, limit) ==
    IF callRunner THEN RunnerStage(resp, text, limit)
    ELSE [used_runner |-> FALSE, suggestions |-> <<>>, failed |-> FALSE,
          raw |-> <<>>, survivors |-> <<>>]

\* the test without "or not suggestions"
RunLocal_OnlyWhenUnused(rsv) == ~ rsv.used_runner

\* local generation after every runner stage
RunLocal_Always(rsv) == TRUE

\* line 277: if not used_runner or not suggestions
RunLocal(rsv) == ~ rsv.used_runner \/ rsv.suggestions = <<>>

\* line 278
LocalStage(rsv, text, limit) ==
    IF RunLocal(rsv)
    THEN generate_ime_suggestions(prim, hash_seed, variant_cache, text, limit, now)
    ELSE [suggestions |-> <<>>, vc |-> variant_cache, prim_calls |-> 0, raised |-> FALSE]

\* lines 277-284: the suggestions handed to the merge
StageSuggestions(rsv, genv, text) ==
    IF RunLocal(rsv) THEN LocalMerge(rsv.suggestions, genv.suggestions, text) ELSE rsv.suggestions

\* a store that does not test the list
CacheStore_Always(rc, key, final) ==
    LRUSet(rc, key, final, now, RESPONSE_CACHE_TTL, RESPONSE_CACHE_MAX_SIZE)

\* lines 318-319: if final: self.response_cache.set(key, final)
CacheStore(rc, key, final) ==
    IF final # <<>>
    THEN LRUSet(rc, key, final, now, RESPONSE_CACHE_TTL, RESPONSE_CACHE_MAX_SIZE)
    ELSE rc

\* lines 318-320 and the trace of the call
MissOutcome(rc, key, r0, callRunner, rsv, genv, staged, final) ==
    Let([r0 EXCEPT !.runner_calls = IF callRunner THEN 1 ELSE 0,
                   !.runner_failed = rsv.failed,
                   !.runner_raw = rsv.raw,
                   !.runner_survivors = rsv.survivors,
                   !.local_ran = RunLocal(rsv),
                   !.prim_calls = genv.prim_calls,
                   !.prim_raised = genv.raised], LAMBDA r1 :
        IF genv.raised
        THEN [rc |-> rc, vc |-> genv.vc,
              ret |-> [r1 EXCEPT !.raised = TRUE, !.cache_status = "raised"]]
        ELSE Let(CacheStore(rc, key, final), LAMBDA stored :
                 [rc |-> stored,
                  vc |-> genv.vc,
                  ret |-> [r1 EXCEPT !.suggestions = final,
                                     !.used_runner = rsv.used_runner,
                                     !.cache_status = "miss",
                                     !.local_suggestions = IF RunLocal(rsv) THEN staged ELSE <<>>,
                                     !.resp_set = (stored # rc)]]))

\* lines 223-320: the miss path, after response_cache.get returned nothing.
\* Each stage's result is bound once and handed to the next stage.
MissPath(rc, text, limit, key, resp, r0) ==
    Let(runner_enabled /\ client, LAMBDA callRunner :
    Let(RunnerOrSkip(callRunner, resp, text, limit), LAMBDA rsv :
    Let(LocalStage(rsv, text, limit), LAMBDA genv :
    Let(StageSuggestions(rsv, genv, text), LAMBDA staged :
    Let(MergeRankCap(staged, limit), LAMBDA final :
        MissOutcome(rc, key, r0, callRunner, rsv, genv, staged, final))))))

Pipeline(rawText, mode, rawLimit, resp) ==
    Let2(Strip(rawText),
         [NoCall EXCEPT !.text = rawText, !.mode = mode, !.limit = rawLimit, !.at = now],
         LAMBDA text, r0 :
        IF text = <<>> \/ Len(text) > MAX_TEXT_LEN
        THEN [rc |-> response_cache, vc |-> variant_cache,
              ret |-> [r0 EXCEPT !.cache_status = "none"]]
        ELSE IF mode.none
        THEN \* "||".join(parts) raises TypeError on a None part
             [rc |-> response_cache, vc |-> variant_cache,
              ret |-> [r0 EXCEPT !.raised = TRUE, !.cache_status = "raised"]]
        ELSE Let(ClampLimit(rawLimit), LAMBDA limit :
             Let(make_cache_key(<<text, mode.str, IntToStr(limit)>>), LAMBDA key :
             Let2(LRUGet(response_cache, key, now), [r0 EXCEPT !.key = key], LAMBDA got, rk :
                IF got.found /\ got.value # <<>>
                THEN [rc |-> got.cache, vc |-> variant_cache,
                      ret |-> [rk EXCEPT !.suggestions = got.value, !.used_runner = TRUE,
                                         !.cache_status = "hit"]]
                ELSE MissPath(got.cache, text, limit, key, resp, rk)))))

Transliterate(req) ==
    /\ calls < MaxCalls
    /\ \E p \in {Pipeline(req.text, req.mode, req.limit, runner)} :
          /\ response_cache' = p.rc
          /\ variant_cache' = p.vc
          /\ ret' = p.ret
    /\ calls' = calls + 1
    /\ UNCHANGED <<cache, base_url, prim, hash_seed, runner, now>>
    /\ UNCHANGED <<lru_vars, thread_vars, gate_vars>>

\* the clock advances between calls
Tick(d) ==
    /\ now + d <= MaxTime
    /\ now' = now + d
    /\ UNCHANGED <<response_cache, variant_cache, cache, base_url, prim, hash_seed, runner, calls, ret>>
    /\ UNCHANGED <<lru_vars, thread_vars, gate_vars>>

Next ==
    \/ \E req \in Requests : Transliterate(req)
    \/ \E d \in TickSteps : Tick(d)

Spec == Init /\ [][Next]_vars

(***************************************************************************)
(* Properties of TransliterationService.transliterate                      *)
(***************************************************************************)

\* the latest call returned to its caller (it did not raise)
Returned(r) == r.cache_status \in {"hit", "miss", "none"}

\* a step that is one call of transliterate
IsCall == calls' = calls + 1

Words(suggestions) == {suggestions[i].word : i \in 1..Len(suggestions)}

\* the eleven dependent vowel signs U+0BBE..0BC2, U+0BC6..0BC8, U+0BCA..0BCC
ElevenSigns == (3006..3010) \cup (3014..3016) \cup (3018..3020)

NativeWord(w) ==
    /\ Len(w) > 0
    /\ \A i \in 1..Len(w) :
          /\ (w[i] >= 2944 /\ w[i] <= 3071) \/ w[i] \in Whitespace
          /\ ~ IsAsciiAlnum(w[i])
    /\ \A i \in 1..(Len(w) - 1) : ~ (w[i] \in ElevenSigns /\ w[i + 1] \in ElevenSigns)

\* C1: every word returned by transliterate, from the cache or generated, is
\* non-empty, made only of Tamil-block characters or whitespace, free of ASCII
\* alphanumerics and free of two adjacent dependent vowel signs.
C1_ValidWords ==
    Returned(ret) => \A i \in 1..Len(ret.suggestions) : NativeWord(ret.suggestions[i].word)

\* the runner answered with a Latin word and with Tamil words, and a list came back
C1_Witness ==
    /\ ret.cache_status = "miss"
    /\ ret.used_runner
    /\ runner.kind = "ok"
    /\ \E i \in 1..Len(runner.suggestions) : ItemOut(runner.suggestions[i]) = W_latin
    /\ ret.suggestions # <<>>

\* C2: no two suggestions of a returned list have the same word.
C2_NoDuplicateWords ==
    Returned(ret) =>
        \A i, j \in 1..Len(ret.suggestions) :
            i # j => ret.suggestions[i].word # ret.suggestions[j].word

\* the runner's surviving candidates repeated a word and several words came back
C2_Witness ==
    /\ ret.cache_status = "miss"
    /\ \E i, j \in 1..Len(ret.runner_survivors) :
          i # j /\ ret.runner_survivors[i].word = ret.runner_survivors[j].word
    /\ Len(ret.suggestions) >= 2

\* C3: for any requested limit the returned list has at most
\* max(8, min(limit, 10)) suggestions.
C3_SizeCap ==
    Returned(ret) => Len(ret.suggestions) <= Max2(8, Min2(ret.limit, 10))

\* a request above 12 that came back with the full ten suggestions
C3_Witness ==
    /\ ret.cache_status = "miss"
    /\ ret.limit > 12
    /\ Len(ret.suggestions) = 10

SameRequest(r1, r2) == r1.text = r2.text /\ r1.mode = r2.mode /\ r1.limit = r2.limit

\* C4 as stated, read for requests that pass input validation: a second call
\* with the identical request within the response-cache TTL of the first
\* returns the first call's list with cacheStatus hit.
C4_Original ==
    [][(IsCall /\ ret.cache_status \in {"hit", "miss"} /\ SameRequest(ret, ret')
           /\ now <= ret.at + RESPONSE_CACHE_TTL)
         => (ret'.cache_status = "hit" /\ ret'.suggestions = ret.suggestions)]_vars

\* C4 amended: when the first call was a miss that returned a non-empty list,
\* the next call with the identical request, made no later than the TTL after
\* the first with the entry still resident, returns the same ordered list
\* with cacheStatus hit.
C4_Idempotent ==
    [][(IsCall /\ ret.cache_status = "miss" /\ ret.suggestions # <<>> /\ SameRequest(ret, ret')
           /\ now <= ret.at + RESPONSE_CACHE_TTL)
         => (ret'.cache_status = "hit" /\ ret'.suggestions = ret.suggestions)]_vars

\* a hit served exactly one TTL after the list was stored
C4_Witness ==
    /\ ret.cache_status = "hit"
    /\ ret.at = RESPONSE_CACHE_TTL
    /\ \E i \in 1..Len(response_cache.store) :
          /\ response_cache.store[i].key = ret.key
          /\ response_cache.store[i].expiry = ret.at

LiveEntry(c, key, t) == \E e \in Entries(c) : e.key = key /\ e.expiry >= t

CachedValue(c, key) == (CHOOSE e \in Entries(c) : e.key = key).value

\* C5: when the response cache holds an unexpired entry for the request's key
\* the call returns that list unchanged with usedRunner true and cacheStatus
\* hit, calls neither the runner nor the primitive, and stores nothing in any
\* cache (the entry is only promoted and the hit counted).
C5_HitFrame ==
    [][(IsCall /\ LiveEntry(response_cache, ret'.key, now))
         => /\ ret'.cache_status = "hit"
            /\ ret'.used_runner
            /\ ret'.suggestions = CachedValue(response_cache, ret'.key)
            /\ ret'.runner_calls = 0
            /\ ret'.prim_calls = 0
            /\ ~ ret'.local_ran
            /\ Entries(response_cache') = Entries(response_cache)
            /\ variant_cache' = variant_cache
            /\ cache' = cache]_vars

\* a hit reported with usedRunner true although the runner is off
C5_Witness ==
    /\ ret.cache_status = "hit"
    /\ ret.used_runner
    /\ ~ runner_enabled
    /\ ret.suggestions # <<>>

\* the text between its first and last non-whitespace character
CoreLen(t) ==
    LET idx == {i \in 1..Len(t) : t[i] \notin Whitespace}
    IN IF idx = {} THEN 0
       ELSE (CHOOSE hi \in idx : \A k \in idx : k <= hi)
            - (CHOOSE lo \in idx : \A k \in idx : k >= lo) + 1

\* C6: a text that is empty after trimming, or longer than the maximum, gives
\* an empty list with cacheStatus none, raises nothing, calls neither the
\* runner nor the primitive and leaves the three caches as they were.
C6_InvalidInput ==
    [][(IsCall /\ (CoreLen(ret'.text) = 0 \/ CoreLen(ret'.text) > 64))
         => /\ ret'.suggestions = <<>>
            /\ ret'.cache_status = "none"
            /\ ~ ret'.used_runner
            /\ ~ ret'.raised
            /\ ret'.runner_calls = 0
            /\ ret'.prim_calls = 0
            /\ response_cache' = response_cache
            /\ variant_cache' = variant_cache
            /\ cache' = cache]_vars

\* a blank text rejected while the caches hold entries
C6_Witness ==
    /\ ret.cache_status = "none"
    /\ ret.text = T_blank
    /\ response_cache.store # <<>>
    /\ variant_cache.store # <<>>

Keys(c) == {e.key : e \in Entries(c)}

\* C7 as stated: the response cache never holds an empty list, a call that
\* returns an empty list stores nothing in it, and after any call that
\* returned an empty list the next identical request is a miss that runs
\* generation again.
C7_Original ==
    /\ [](\A e \in Entries(response_cache) : e.value # <<>>)
    /\ [][(IsCall /\ Returned(ret') /\ ret'.suggestions = <<>>)
            => /\ Entries(response_cache') \subseteq Entries(response_cache)
               /\ ret'.key \notin Keys(response_cache')]_vars
    /\ [][(IsCall /\ Returned(ret) /\ ret.cache_status # "idle" /\ ret.suggestions = <<>>
              /\ SameRequest(ret, ret'))
            => /\ ret'.cache_status = "miss"
               /\ ret'.runner_calls = 1 \/ ret'.local_ran]_vars

\* C7 amended: the response cache never holds an empty list, a call that
\* returns an empty list stores nothing in it, and the next identical request
\* after a miss that returned an empty list is a miss that generates again
\* (a request rejected by input validation is rejected again, with status none).
C7_EmptyNeverCached ==
    /\ [](\A e \in Entries(response_cache) : e.value # <<>>)
    /\ [][(IsCall /\ Returned(ret') /\ ret'.suggestions = <<>>)
            => /\ Entries(response_cache') \subseteq Entries(response_cache)
               /\ ret'.key \notin Keys(response_cache')]_vars
    /\ [][(IsCall /\ ret.cache_status = "miss" /\ ret.suggestions = <<>> /\ SameRequest(ret, ret'))
            => /\ ret'.cache_status = "miss"
               /\ ret'.runner_calls = 1 \/ ret'.local_ran]_vars

\* a second miss in a row that ran local generation and came back empty
C7_Witness ==
    /\ calls = 2
    /\ ret.cache_status = "miss"
    /\ ret.suggestions = <<>>
    /\ ret.local_ran
    /\ response_cache.cache_misses = 2
    /\ response_cache.store = <<>>

\* C8: when the configured runner fails, the failure does not reach the caller:
\* the runner stage contributes nothing, local generation runs in the same call
\* and, unless the primitive itself raises, its candidates form the result.
C8_RunnerFailureFallsBack ==
    (ret.runner_calls = 1 /\ ret.runner_failed) =>
        /\ ret.local_ran
        /\ ret.runner_raw = <<>>
        /\ ret.raised => ret.prim_raised
        /\ ~ ret.raised =>
              /\ ret.cache_status = "miss"
              /\ Words(ret.suggestions) \subseteq Words(ret.local_suggestions)

\* the runner failed after its answer was accepted, and local words came back
C8_Witness ==
    /\ ret.runner_calls = 1
    /\ ret.runner_failed
    /\ ret.used_runner
    /\ ret.local_ran
    /\ ret.suggestions # <<>>

\* C9: when the conversion primitive raises or is missing during local
\* generation, transliterate does not raise; the local stage yields nothing and
\* the caller gets an empty list that is not stored in the response cache.
C9_PrimitiveFailureContained ==
    (ret.local_ran /\ (ret.prim_raised \/ prim = "missing")) =>
        /\ ~ ret.raised
        /\ ret.cache_status = "miss"
        /\ ret.suggestions = <<>>
        /\ ~ ret.resp_set

\* C10: in a call that reaches the runner stage, local generation is skipped
\* only if a runner candidate survived the validity filter.
C10_SkipOnlyOnSurvivor ==
    (ret.cache_status = "miss" /\ ret.runner_calls = 1 /\ ~ ret.local_ran) =>
        ret.runner_survivors # <<>>

\* C11: every word returned on a cache miss is within the length cap of the
\* validity filter: at most 3 characters when the trimmed token has at most 2
\* characters, at most 6 otherwise, whether it came from the runner or from
\* local generation.
C11_LengthCap ==
    ret.cache_status = "miss" =>
        \A w \in Words(ret.suggestions) : Len(w) <= (IF CoreLen(ret.text) <= 2 THEN 3 ELSE 6)

\* C12: with the runner disabled, a request with a positive limit L returns at
\* most L suggestions, all of them native-script words.
C12_LimitRespected ==
    (Returned(ret) /\ ~ runner_enabled /\ ret.limit >= 1) =>
        /\ Len(ret.suggestions) <= ret.limit
        /\ \A w \in Words(ret.suggestions) : NativeWord(w)

\* C21: one call of transliterate calls the remote runner at most once, also
\* when the runner call failed, and not at all when the base URL is unset or
\* blank, when the input is invalid, or when the response cache hits.
C21_RunnerAtMostOnce ==
    /\ ret.runner_calls <= 1
    /\ ret.runner_failed => ret.runner_calls = 1
    /\ (Strip(base_url) = <<>> \/ ret.cache_status \in {"none", "hit"}) => ret.runner_calls = 0

\* a failed runner call that was not repeated; local generation took over
C21_Witness ==
    /\ Strip(base_url) # <<>>
    /\ ret.cache_status = "miss"
    /\ ret.runner_failed
    /\ ret.runner_calls = 1
    /\ ret.local_ran

\* C27: the list returned on a miss never mixes provenance: either local
\* generation did not run and every suggestion is a runner candidate with
\* score 1.0, or local generation ran, the runner stage had left no candidate,
\* and every suggestion is a locally generated one.
C27_NoMixedProvenance ==
    ret.cache_status = "miss" =>
        \/ /\ ~ ret.local_ran
           /\ ret.used_runner
           /\ \A i \in 1..Len(ret.suggestions) :
                 /\ ret.suggestions[i].score = 100
                 /\ ret.suggestions[i].word \in Words(ret.runner_raw)
        \/ /\ ret.local_ran
           /\ ret.runner_raw = <<>>
           /\ Words(ret.suggestions) \subseteq Words(ret.local_suggestions)

\* the runner's candidates were returned and local generation did not run
C27_Witness ==
    /\ ret.cache_status = "miss"
    /\ ret.runner_raw # <<>>
    /\ ~ ret.local_ran
    /\ Len(ret.suggestions) >= 2

(***************************************************************************)
(* LRUCache on its own: one instance, called by one caller at a time       *)
(***************************************************************************)

MaxSize == 2
MaxTtl == 2
MaxClock == 2
MaxOps == 4

\* the transliteration service at rest
PipelineIdle ==
    /\ response_cache = NewCache
    /\ variant_cache = NewCache
    /\ cache = NewCache
    /\ base_url = UrlUnset
    /\ runner = NoResponse
    /\ prim = "letters"
    /\ hash_seed = 0
    /\ now = 0
    /\ calls = 0
    /\ ret = NoCall

\* LRUCache(max_size, default_ttl)
LRUInit ==
    /\ lru = NewCache
    /\ \E m \in 0..MaxSize : lru_conf = [max_size |-> m, default_ttl |-> MaxTtl]
    /\ clock = 0
    /\ ops = 0
    /\ last = NoOp
    /\ last_set = [k \in CacheKeys |-> NeverSet]
    /\ used_at = [k \in CacheKeys |-> 0]
    /\ PipelineIdle /\ ThreadsIdle /\ GateIdle

\* ttl = ttl or self.default_ttl (None is 0)
EffectiveTtl(ttl, default_ttl) == IF ttl = 0 THEN default_ttl ELSE ttl

StoreKeys(c) == {c.store[i].key : i \in 1..Len(c.store)}

\* cache.get(key)
CacheGet(key) ==
    /\ ops < MaxOps
    /\ \E g \in {LRUGet(lru, key, clock)} :
          /\ lru' = g.cache
          /\ last' = [op |-> "get", key |-> key, found |-> g.found, result |-> g.value,
                      evicted |-> StoreKeys(lru) \ StoreKeys(g.cache),
                      present |-> key \in StoreKeys(lru)]
          /\ used_at' = IF g.found THEN [used_at EXCEPT ![key] = ops + 1] ELSE used_at
    /\ ops' = ops + 1
    /\ UNCHANGED <<lru_conf, clock, last_set>>
    /\ UNCHANGED <<pipe_vars, thread_vars, gate_vars>>

\* cache.set(key, value, ttl)
CacheSet(key, value, ttl) ==
    /\ ops < MaxOps
    /\ \E c \in {LRUSet(lru, key, value, clock, EffectiveTtl(ttl, lru_conf.default_ttl),
                        lru_conf.max_size)} :
          /\ lru' = c
          /\ last' = [op |-> "set", key |-> key, found |-> FALSE, result |-> <<>>,
                      evicted |-> (StoreKeys(lru) \cup {key}) \ StoreKeys(c),
                      present |-> key \in StoreKeys(lru)]
    /\ last_set' = [last_set EXCEPT ![key] =
                       [set |-> TRUE, value |-> value,
                        expiry |-> clock + (IF ttl = 0 THEN lru_conf.default_ttl ELSE ttl),
                        op |-> ops + 1]]
    /\ used_at' = [used_at EXCEPT ![key] = ops + 1]
    /\ ops' = ops + 1
    /\ UNCHANGED <<lru_conf, clock>>
    /\ UNCHANGED <<pipe_vars, thread_vars, gate_vars>>

\* cache.clear()
CacheClear ==
    /\ ops < MaxOps
    /\ lru' = LRUClear(lru)
    /\ last' = [NoOp EXCEPT !.op = "clear", !.evicted = StoreKeys(lru)]
    /\ ops' = ops + 1
    /\ UNCHANGED <<lru_conf, clock, last_set, used_at>>
    /\ UNCHANGED <<pipe_vars, thread_vars, gate_vars>>

\* time passes between operations
CacheTick ==
    /\ clock < MaxClock
    /\ clock' = clock + 1
    /\ UNCHANGED <<lru, lru_conf, ops, last, last_set, used_at>>
    /\ UNCHANGED <<pipe_vars, thread_vars, gate_vars>>

NextLRU ==
    \/ \E key \in CacheKeys : CacheGet(key)
    \/ \E key \in CacheKeys, inp \in SetInputs : CacheSet(key, inp.value, inp.ttl)
    \/ CacheClear
    \/ CacheTick

SpecLRU == LRUInit /\ [][NextLRU]_vars

(***************************************************************************)
(* Properties of LRUCache                                                  *)
(***************************************************************************)

\* C13: the number of stored entries never exceeds max_size: not after a set,
\* and not after any get or clear that follows it.
C13_SizeBound == Len(lru.store) <= lru_conf.max_size

\* a set on a full instance that evicted an entry and left it exactly full
C13_Witness ==
    /\ last.op = "set"
    /\ ~ last.present
    /\ last.evicted # {}
    /\ lru_conf.max_size >= 1
    /\ Len(lru.store) = lru_conf.max_size

\* the store without the entry of one key, the others in their order
WithoutKey(store, key) ==
    LET other(e) == e.key # key
    IN SelectSeq(store, other)

IsGet == ops' = ops + 1 /\ last'.op = "get"
IsSet == ops' = ops + 1 /\ last'.op = "set"

\* C14: get never returns a value whose expiry instant has passed. For an
\* absent key or an expired entry it returns absent, counts a miss and leaves
\* the store without that key; for a live entry it returns the value of the
\* latest set of the key, counts a hit and keeps every other entry in place.
C14_GetOutcome ==
    [][IsGet =>
         LET key == last'.key
             i == KeyIndex(lru.store, key)
             live == i # 0 /\ lru.store[i].expiry >= clock
         IN /\ last'.found => (last_set[key].set /\ last_set[key].expiry >= clock)
            /\ IF live
               THEN /\ last'.found
                    /\ last'.result = last_set[key].value
                    /\ lru'.cache_hits = lru.cache_hits + 1
                    /\ lru'.cache_misses = lru.cache_misses
                    /\ Entries(lru') = Entries(lru)
                    /\ WithoutKey(lru'.store, key) = WithoutKey(lru.store, key)
               ELSE /\ ~ last'.found
                    /\ last'.result = <<>>
                    /\ lru'.cache_misses = lru.cache_misses + 1
                    /\ lru'.cache_hits = lru.cache_hits
                    /\ lru'.store = WithoutKey(lru.store, key)]_vars

\* a get found its entry expired and removed it, after an earlier hit, another
\* entry staying in the store
C14_Witness ==
    /\ last.op = "get"
    /\ last.present
    /\ ~ last.found
    /\ last.evicted = {last.key}
    /\ lru.cache_hits >= 1
    /\ lru.store # <<>>

\* C15: a set removes exactly the least recently used entries, a use being a
\* set of the key or a get that hit it; the store keeps as many entries as
\* max_size allows; with max_size >= 1 the key just set is retained, and
\* overwriting an existing key evicts nothing.
C15_EvictionOrder ==
    [][IsSet =>
         LET key == last'.key
             before == StoreKeys(lru) \cup {key}
             after == StoreKeys(lru')
             gone == before \ after
         IN /\ after \subseteq before
            /\ Cardinality(after) = Min2(Cardinality(before), lru_conf.max_size)
            /\ \A e \in gone, r \in after : used_at'[e] < used_at'[r]
            /\ lru_conf.max_size >= 1 => key \in after
            /\ key \in StoreKeys(lru) => gone = {}]_vars

\* a set evicted an entry that was set after a retained one: the retained
\* entry had been used by a later get
C15_Witness ==
    /\ last.op = "set"
    /\ \E e \in last.evicted, r \in StoreKeys(lru) :
          /\ r # last.key
          /\ last_set[r].op < last_set[e].op
          /\ used_at[r] > used_at[e]

(***************************************************************************)
(* LRUCache called from several threads. Each operation is split into the  *)
(* steps the interpreter can interleave: taking the lock, each access to   *)
(* _store, each read and each write of a counter, releasing the lock.      *)
(***************************************************************************)

MaxThreadOps == 3

Threads == {1, 2}

\* the keys the threads contend for; every set is set(key, value, ttl=1)
ThreadKeys == {K1, K2}

NoItem == [has |-> FALSE, key |-> <<>>, expiry |-> 0, value |-> <<>>]

IdleThread ==
    [pc |-> "idle", op |-> "none", key |-> <<>>, value |-> <<>>, ttl |-> 0, item |-> NoItem,
     t |-> 0, tmp |-> 0, found |-> FALSE, result |-> <<>>, raised |-> FALSE, waited |-> FALSE]

\* two caller threads share LRUCache(max_size, default_ttl)
ThreadInit ==
    /\ lru = NewCache
    /\ \E m \in 0..MaxSize : lru_conf = [max_size |-> m, default_ttl |-> MaxTtl]
    /\ clock = 0
    /\ ops = 0
    /\ last = NoOp
    /\ last_set = [k \in CacheKeys |-> NeverSet]
    /\ used_at = [k \in CacheKeys |-> 0]
    /\ threads = [t \in Threads |-> IdleThread]
    /\ lock_owner = 0
    /\ lin = NewCache
    /\ running = 0
    /\ PipelineIdle /\ GateIdle

\* a lock that lets everybody in
LockFree_Always(owner, t) == TRUE

\* threading.RLock: free, or already held by the same thread
LockFree(owner, t) == owner = 0 \/ owner = t

ThreadFrame == UNCHANGED <<lru_conf, clock, last_set, used_at, running, pipe_vars, gate_vars>>

Goto(t, pc) == threads' = [threads EXCEPT ![t].pc = pc]

\* a thread calls get, set or clear
Begin(t, op, key, value, ttl) ==
    /\ threads[t].pc = "idle"
    /\ ops < MaxThreadOps
    /\ threads' = [threads EXCEPT ![t] =
                      [IdleThread EXCEPT !.pc = "acquire", !.op = op, !.key = key,
                                         !.value = value,
                                         !.ttl = EffectiveTtl(ttl, lru_conf.default_ttl)]]
    /\ ops' = ops + 1
    /\ UNCHANGED <<lru, last, lock_owner, lin>>
    /\ ThreadFrame

\* with self._lock: (entry); a thread that finds the lock taken waits
Acquire(t) ==
    /\ threads[t].pc = "acquire"
    /\ IF LockFree(lock_owner, t)
       THEN /\ lock_owner' = t
            /\ Goto(t, CASE threads[t].op = "get" -> "lookup"
                         [] threads[t].op = "set" -> "assign"
                         [] OTHER -> "clear_store")
       ELSE /\ ~ threads[t].waited
            /\ threads' = [threads EXCEPT ![t].waited = TRUE]
            /\ UNCHANGED lock_owner
    /\ UNCHANGED <<lru, ops, last, lin>>
    /\ ThreadFrame

\* line 26: item = self._store.get(key); line 27: if not item
Lookup(t) ==
    /\ threads[t].pc = "lookup"
    /\ \E i \in {KeyIndex(lru.store, threads[t].key)} :
          threads' = [threads EXCEPT
                         ![t].item = IF i = 0 THEN NoItem
                                     ELSE [has |-> TRUE, key |-> lru.store[i].key,
                                           expiry |-> lru.store[i].expiry,
                                           value |-> lru.store[i].value],
                         ![t].pc = IF i = 0 THEN "count_miss" ELSE "check"]
    /\ UNCHANGED <<lru, ops, last, lock_owner, lin>>
    /\ ThreadFrame

\* line 31: if expiry < time.time()
Check(t) ==
    /\ threads[t].pc = "check"
    /\ threads' = [threads EXCEPT ![t].t = clock,
                                  ![t].pc = IF threads[t].item.expiry < clock
                                            THEN "delete" ELSE "promote"]
    /\ UNCHANGED <<lru, ops, last, lock_owner, lin>>
    /\ ThreadFrame

\* line 32: del self._store[key] (KeyError when the key is gone)
Delete(t) ==
    /\ threads[t].pc = "delete"
    /\ IF KeyIndex(lru.store, threads[t].key) = 0
       THEN /\ threads' = [threads EXCEPT ![t].raised = TRUE, ![t].pc = "release"]
            /\ UNCHANGED lru
       ELSE /\ lru' = [lru EXCEPT !.store = RemoveAt(@, KeyIndex(lru.store, threads[t].key))]
            /\ Goto(t, "count_miss")
    /\ UNCHANGED <<ops, last, lock_owner, lin>>
    /\ ThreadFrame

\* lines 28, 33: self.cache_misses += 1, the read
CountMiss(t) ==
    /\ threads[t].pc = "count_miss"
    /\ threads' = [threads EXCEPT ![t].tmp = lru.cache_misses, ![t].pc = "store_miss"]
    /\ UNCHANGED <<lru, ops, last, lock_owner, lin>>
    /\ ThreadFrame

\* lines 28-29, 33-34: self.cache_misses += 1, the write; return None
StoreMiss(t) ==
    /\ threads[t].pc = "store_miss"
    /\ lru' = [lru EXCEPT !.cache_misses = threads[t].tmp + 1]
    /\ threads' = [threads EXCEPT ![t].found = FALSE, ![t].result = <<>>, ![t].pc = "release"]
    /\ UNCHANGED <<ops, last, lock_owner, lin>>
    /\ ThreadFrame

\* line 35: self._store.move_to_end(key) (KeyError when the key is gone)
Promote(t) ==
    /\ threads[t].pc = "promote"
    /\ \E i \in {KeyIndex(lru.store, threads[t].key)} :
          IF i = 0
          THEN /\ threads' = [threads EXCEPT ![t].raised = TRUE, ![t].pc = "release"]
               /\ UNCHANGED lru
          ELSE /\ lru' = [lru EXCEPT !.store = Append(RemoveAt(@, i), lru.store[i])]
               /\ Goto(t, "count_hit")
    /\ UNCHANGED <<ops, last, lock_owner, lin>>
    /\ ThreadFrame

\* line 36: self.cache_hits += 1, the read
CountHit(t) ==
    /\ threads[t].pc = "count_hit"
    /\ threads' = [threads EXCEPT ![t].tmp = lru.cache_hits, ![t].pc = "store_hit"]
    /\ UNCHANGED <<lru, ops, last, lock_owner, lin>>
    /\ ThreadFrame

\* lines 36-37: self.cache_hits += 1, the write; return value
StoreHit(t) ==
    /\ threads[t].pc = "store_hit"
    /\ lru' = [lru EXCEPT !.cache_hits = threads[t].tmp + 1]
    /\ threads' = [threads EXCEPT ![t].found = TRUE, ![t].result = threads[t].item.value,
                                  ![t].pc = "release"]
    /\ UNCHANGED <<ops, last, lock_owner, lin>>
    /\ ThreadFrame

\* line 42: self._store[key] = (time.time() + ttl, value)
Assign(t) ==
    /\ threads[t].pc = "assign"
    /\ \E i \in {KeyIndex(lru.store, threads[t].key)},
          e \in {[key |-> threads[t].key, expiry |-> clock + threads[t].ttl,
                  value |-> threads[t].value]} :
          lru' = [lru EXCEPT !.store = IF i = 0 THEN Append(@, e) ELSE [@ EXCEPT ![i] = e]]
    /\ threads' = [threads EXCEPT ![t].t = clock, ![t].pc = "move"]
    /\ UNCHANGED <<ops, last, lock_owner, lin>>
    /\ ThreadFrame

\* line 43: self._store.move_to_end(key) (KeyError when the key is gone)
Move(t) ==
    /\ threads[t].pc = "move"
    /\ \E i \in {KeyIndex(lru.store, threads[t].key)} :
          IF i = 0
          THEN /\ threads' = [threads EXCEPT ![t].raised = TRUE, ![t].pc = "release"]
               /\ UNCHANGED lru
          ELSE /\ lru' = [lru EXCEPT !.store = Append(RemoveAt(@, i), lru.store[i])]
               /\ Goto(t, "evict")
    /\ UNCHANGED <<ops, last, lock_owner, lin>>
    /\ ThreadFrame

\* lines 21-22: one turn of the while loop of _evict
Evict(t) ==
    /\ threads[t].pc = "evict"
    /\ IF Len(lru.store) > lru_conf.max_size
       THEN /\ lru' = [lru EXCEPT !.store = Tail(@)]
            /\ UNCHANGED threads
       ELSE /\ Goto(t, "release")
            /\ UNCHANGED lru
    /\ UNCHANGED <<ops, last, lock_owner, lin>>
    /\ ThreadFrame

\* line 48: self._store.clear()
ClearStore(t) ==
    /\ threads[t].pc = "clear_store"
    /\ lru' = [lru EXCEPT !.store = <<>>]
    /\ Goto(t, "zero_hits")
    /\ UNCHANGED <<ops, last, lock_owner, lin>>
    /\ ThreadFrame

\* line 49: self.cache_hits = 0
ZeroHits(t) ==
    /\ threads[t].pc = "zero_hits"
    /\ lru' = [lru EXCEPT !.cache_hits = 0]
    /\ Goto(t, "zero_misses")
    /\ UNCHANGED <<ops, last, lock_owner, lin>>
    /\ ThreadFrame

\* line 50: self.cache_misses = 0
ZeroMisses(t) ==
    /\ threads[t].pc = "zero_misses"
    /\ lru' = [lru EXCEPT !.cache_misses = 0]
    /\ Goto(t, "release")
    /\ UNCHANGED <<ops, last, lock_owner, lin>>
    /\ ThreadFrame

\* the same operation run in one piece on the instance kept beside the real one
Sequential(c, th) ==
    IF th.op = "get" THEN LRUGet(c, th.key, th.t)
    ELSE IF th.op = "set"
    THEN [cache |-> LRUSet(c, th.key, th.value, th.t, th.ttl, lru_conf.max_size),
          found |-> FALSE, value |-> <<>>]
    ELSE [cache |-> LRUClear(c), found |-> FALSE, value |-> <<>>]

\* with self._lock: (exit); the operation returns to its caller
Release(t) ==
    /\ threads[t].pc = "release"
    /\ lock_owner' = IF lock_owner = t THEN 0 ELSE lock_owner
    /\ \E q \in {Sequential(lin, threads[t])} :
          /\ lin' = q.cache
          /\ last' = [op |-> threads[t].op, key |-> threads[t].key,
                      found |-> threads[t].found, result |-> threads[t].result,
                      raised |-> threads[t].raised, waited |-> threads[t].waited,
                      seq_found |-> q.found, seq_result |-> q.value]
    /\ threads' = [threads EXCEPT ![t] = IdleThread]
    /\ UNCHANGED <<lru, ops>>
    /\ ThreadFrame

NextThreads ==
    \/ \E t \in Threads, key \in ThreadKeys : Begin(t, "get", key, <<>>, 0)
    \/ \E t \in Threads, key \in ThreadKeys : Begin(t, "set", key, <<2>>, 1)
    \/ \E t \in Threads : Begin(t, "clear", <<>>, <<>>, 0)
    \/ \E t \in Threads : Acquire(t)
    \/ \E t \in Threads : Lookup(t)
    \/ \E t \in Threads : Check(t)
    \/ \E t \in Threads : Delete(t)
    \/ \E t \in Threads : CountMiss(t)
    \/ \E t \in Threads : StoreMiss(t)
    \/ \E t \in Threads : Promote(t)
    \/ \E t \in Threads : CountHit(t)
    \/ \E t \in Threads : StoreHit(t)
    \/ \E t \in Threads : Assign(t)
    \/ \E t \in Threads : Move(t)
    \/ \E t \in Threads : Evict(t)
    \/ \E t \in Threads : ClearStore(t)
    \/ \E t \in Threads : ZeroHits(t)
    \/ \E t \in Threads : ZeroMisses(t)
    \/ \E t \in Threads : Release(t)
    \/ CacheTick

SpecThreads == ThreadInit /\ [][NextThreads]_vars

\* the threads between taking and releasing the lock
Inside == {t \in Threads : threads[t].pc \notin {"idle", "acquire"}}

\* C16: get, set and clear are atomic with respect to concurrent callers: at
\* most one thread is inside an operation; whenever no operation is in
\* progress the instance (entries, recency order and both counters) is what
\* the same operations run one at a time in the order of their completion
\* give; the size is then at most max_size; and every operation returns what
\* it returns in that sequential run and never fails on an entry that another
\* caller removed.
C16_Atomic ==
    /\ Cardinality(Inside) <= 1
    /\ Inside = {} => (lru = lin /\ Len(lru.store) <= lru_conf.max_size)
    /\ last.op # "none" =>
          /\ ~ last.raised
          /\ last.found = last.seq_found
          /\ last.result = last.seq_result

\* a get returned a hit after waiting for the lock while the other thread is
\* in turn waiting for it
C16_Witness ==
    /\ last.op = "get"
    /\ last.found
    /\ last.waited
    /\ \E t \in Threads : threads[t].pc = "acquire" /\ threads[t].waited

(***************************************************************************)
(* AuthMiddleware, verify_api_key and RateLimiter. A digest is taken to be *)
(* injective in (secret, message): it is the pair, written as one string.  *)
(***************************************************************************)

MaxRequests == 3
MaxRate == 2
MaxGateTime == 62

RATE_LIMIT_PER_MIN == 60
Window == 60

S_change_me == <<99, 104, 97, 110, 103, 101, 45, 109, 101>>
S_default_salt == <<100, 101, 102, 97, 117, 108, 116, 45, 115, 97, 108, 116>>
S_secret_salt == <<115, 101, 99, 114, 101, 116, 95, 115, 97, 108, 116>>
S_demo_client == <<100, 101, 109, 111, 45, 99, 108, 105, 101, 110, 116>>
S_demo_key == <<100, 101, 109, 111, 45, 107, 101, 121>>
S_test_secret == <<116, 101, 115, 116, 45, 115, 101, 99, 114, 101, 116>>
S_test_client == <<116, 101, 115, 116, 45, 99, 108, 105, 101, 110, 116>>
S_test_key == <<116, 101, 115, 116, 45, 107, 101, 121>>
S_other_client == <<110, 111, 98, 111, 100, 121>>
S_wrong_key == <<119, 114, 111, 110, 103, 45, 107, 101, 121>>
HealthPath == <<47, 104, 101, 97, 108, 116, 104>>
TransliteratePath == <<47, 97, 112, 105, 47, 118, 49, 47, 116, 114, 97, 110, 115, 108, 105, 116, 101, 114, 97, 116, 101>>

\* os.environ.get(name, default)
Getenv(value, default) == IF value = <<>> THEN default ELSE value

\* hmac.new(secret, raw, sha256).hexdigest()
HmacHex(secret, raw) == <<Len(secret)>> \o secret \o raw

\* config.hash_key
hash_key(raw) == HmacHex(Getenv(environ.API_KEY_SECRET, S_change_me), raw)

\* settings.CLIENT_REGISTRY.get(client_id, default): the registry has the one
\* entry CLIENT_ID -> hash_key(API_KEY)
RegistryGet(client_id, default) ==
    IF client_id = Getenv(environ.CLIENT_ID, S_demo_client)
    THEN hash_key(Getenv(environ.API_KEY, S_demo_key))
    ELSE default

\* security.hash_with_secret
hash_with_secret(raw) == HmacHex(Getenv(environ.API_KEY_SECRET, S_change_me), raw)

\* security.hash_key_with_secret
hash_key_with_secret(raw) == HmacHex(RegistryGet(S_secret_salt, S_default_salt), raw)

\* security.verify_api_key as first defined in the module (lines 12-17); the
\* definition of lines 23-33 replaces it when the module is loaded
verify_api_key_first(client_id, presented_key) ==
    Let(RegistryGet(client_id, <<>>), LAMBDA stored :
        IF stored = <<>> THEN FALSE ELSE stored = hash_with_secret(presented_key))

\* security.verify_api_key, the definition in force (lines 23-33)
verify_api_key(client_id, presented_key) ==
    Let(RegistryGet(client_id, <<>>), LAMBDA stored :
        IF stored = <<>> THEN FALSE ELSE stored = hash_key_with_secret(presented_key))

\* settings.RATE_LIMIT_PER_MIN
RateLimit == IF environ.RATE_LIMIT_PER_MIN = 0 THEN RATE_LIMIT_PER_MIN
             ELSE environ.RATE_LIMIT_PER_MIN

\* self.buckets.setdefault(key, deque())
Bucket(bs, key) == IF key \in DOMAIN bs THEN bs[key] ELSE <<>>

WithBucket(bs, key, bucket) ==
    [k \in DOMAIN bs \cup {key} |-> IF k = key THEN bucket ELSE bs[k]]

RECURSIVE DropOld(_, _, _)
\* while bucket and now - bucket[0] > self.window: bucket.popleft()
DropOld(bucket, t, window) ==
    IF bucket # <<>> /\ t - bucket[1] > window THEN DropOld(Tail(bucket), t, window)
    ELSE bucket

\* allow that admits one call more than max
allow_OneOver(bs, key, t, max) ==
    Let(DropOld(Bucket(bs, key), t, Window), LAMBDA bucket :
        IF Len(bucket) > max
        THEN [allowed |-> FALSE, buckets |-> WithBucket(bs, key, bucket)]
        ELSE [allowed |-> TRUE, buckets |-> WithBucket(bs, key, Append(bucket, t))])

\* RateLimiter.allow: [allowed, buckets]
allow(bs, key, t, max) ==
    Let(DropOld(Bucket(bs, key), t, Window), LAMBDA bucket :
        IF Len(bucket) >= max
        THEN [allowed |-> FALSE, buckets |-> WithBucket(bs, key, bucket)]
        ELSE [allowed |-> TRUE, buckets |-> WithBucket(bs, key, Append(bucket, t))])

\* a header test that lets every request through
MissingHeaders_Never(client_id, api_key) == FALSE

\* line 23: if not client_id or not api_key (an absent header is <<>>)
MissingHeaders(client_id, api_key) == client_id = <<>> \/ api_key = <<>>

\* the outcome of dispatch: status, whether call_next ran, the rate limiter's
\* buckets, whether allow was called and with what result
Outcome(status, forwarded, bs, allow_calls, allowed) ==
    [status |-> status, forwarded |-> forwarded, buckets |-> bs,
     allow_calls |-> allow_calls, allowed |-> allowed]

\* AuthMiddleware.dispatch; a request handed to call_next is answered 200 by
\* its route, and an exception that leaves dispatch is answered 500
dispatch(path, client_id, api_key) ==
    IF path = HealthPath THEN Outcome(200, TRUE, buckets, 0, FALSE)
    ELSE IF MissingHeaders(client_id, api_key) THEN Outcome(401, FALSE, buckets, 0, FALSE)
    ELSE IF RegistryGet(client_id, <<>>) = <<>> THEN Outcome(401, FALSE, buckets, 0, FALSE)
    ELSE IF api_key = <<>> THEN Outcome(500, FALSE, buckets, 0, FALSE)
    ELSE IF ~ verify_api_key(client_id, api_key) THEN Outcome(401, FALSE, buckets, 0, FALSE)
    ELSE Let(allow(buckets, client_id, clock, RateLimit), LAMBDA a :
             IF ~ a.allowed THEN Outcome(429, FALSE, a.buckets, 1, FALSE)
             ELSE Outcome(200, TRUE, a.buckets, 1, TRUE))

\* the processes: the secret unset, set as in the tests, or equal to the
\* fallback salt of hash_key_with_secret; the client registered under its own
\* id or under the id "secret_salt"
GateEnvirons ==
    {[API_KEY_SECRET |-> sec, CLIENT_ID |-> cid, API_KEY |-> S_test_key, RATE_LIMIT_PER_MIN |-> rate] :
        sec \in {<<>>, S_test_secret, S_default_salt},
        cid \in {S_test_client, S_secret_salt},
        rate \in 1..MaxRate}

GateInit ==
    /\ environ \in GateEnvirons
    /\ buckets = <<>>
    /\ admitted = <<>>
    /\ handled = 0
    /\ reply = NoRequest
    /\ lru = NewCache
    /\ lru_conf = [max_size |-> CACHE_MAX_SIZE, default_ttl |-> CACHE_TTL_SECONDS]
    /\ clock = 0
    /\ ops = 0
    /\ last = NoOp
    /\ last_set = [k \in CacheKeys |-> NeverSet]
    /\ used_at = [k \in CacheKeys |-> 0]
    /\ PipelineIdle /\ ThreadsIdle

\* one request through the middleware
HandleRequest(path, client_id, api_key) ==
    /\ ops < MaxRequests
    /\ \E o \in {dispatch(path, client_id, api_key)} :
          /\ buckets' = o.buckets
          /\ handled' = IF o.forwarded THEN handled + 1 ELSE handled
          /\ admitted' = IF o.allowed
                         THEN WithBucket(admitted, client_id, Append(Bucket(admitted, client_id), clock))
                         ELSE admitted
          /\ reply' = [path |-> path, client_id |-> client_id, api_key |-> api_key,
                       at |-> clock, status |-> o.status, forwarded |-> o.forwarded,
                       allow_calls |-> o.allow_calls]
    /\ ops' = ops + 1
    /\ UNCHANGED <<environ, lru, lru_conf, clock, last, last_set, used_at>>
    /\ UNCHANGED <<pipe_vars, thread_vars>>

\* time passes between requests
GateTick(d) ==
    /\ clock + d <= MaxGateTime
    /\ clock' = clock + d
    /\ UNCHANGED <<lru, lru_conf, ops, last, last_set, used_at>>
    /\ UNCHANGED <<pipe_vars, thread_vars, gate_vars>>

RegisteredClient == Getenv(environ.CLIENT_ID, S_demo_client)
RegisteredKey == Getenv(environ.API_KEY, S_demo_key)

NextGate ==
    \/ \E path \in {HealthPath, TransliteratePath},
          client_id \in {<<>>, RegisteredClient, S_other_client},
          api_key \in {<<>>, RegisteredKey, S_wrong_key} :
          HandleRequest(path, client_id, api_key)
    \/ \E d \in {Window \div 2, Window \div 2 + 1} : GateTick(d)

SpecGate == GateInit /\ [][NextGate]_vars

(***************************************************************************)
(* Properties of the middleware                                            *)
(***************************************************************************)

\* a step that is one request through the middleware
IsRequest == ops' = ops + 1 /\ reply'.path # <<>>

\* the calls of a client admitted during the Window seconds up to now
AdmittedInWindow(client_id) ==
    {i \in 1..Len(Bucket(admitted, client_id)) : clock - Bucket(admitted, client_id)[i] <= Window}

C18_RegisteredKeyPasses ==
    (/\ reply.path # <<>>
     /\ reply.path # HealthPath
     /\ reply.client_id = RegisteredClient
     /\ reply.api_key = RegisteredKey) =>
        /\ reply.status # 401
        /\ reply.status # 429 => (reply.forwarded /\ reply.status = 200)

\* C19: a request to a path other than /health without the X-Client-Id or the
\* X-API-Key header is answered 401, is not handed to the route handler and
\* uses no rate-limit quota.
C19_MissingHeaders ==
    [][(IsRequest /\ reply'.path # HealthPath
          /\ (reply'.client_id = <<>> \/ reply'.api_key = <<>>)) =>
            /\ reply'.status = 401
            /\ ~ reply'.forwarded
            /\ handled' = handled
            /\ reply'.allow_calls = 0
            /\ buckets' = buckets
            /\ admitted' = admitted]_vars

\* the registered client's id without a key is refused while the client has
\* quota in use
C19_Witness ==
    /\ reply.path = TransliteratePath
    /\ reply.client_id = RegisteredClient
    /\ reply.api_key = <<>>
    /\ reply.status = 401
    /\ Bucket(buckets, RegisteredClient) # <<>>

(***************************************************************************)
(* The response cache and its keys: lines 210-221 and 318-319 of           *)
(* transliterate, the list of a request standing for the request itself    *)
(***************************************************************************)

KeyTexts == {<<97>>, <<97, 124, 124, 98>>, <<32, 97>>}
KeyModes == {<<115, 112, 111, 107, 101, 110>>, <<98, 124, 124, 115, 112, 111, 107, 101, 110>>}
KeyLimits == {0, 8, 12}

KeyInit ==
    /\ lru = NewCache
    /\ lru_conf = [max_size |-> RESPONSE_CACHE_MAX_SIZE, default_ttl |-> RESPONSE_CACHE_TTL]
    /\ clock = 0
    /\ ops = 0
    /\ last = NoOp
    /\ last_set = [k \in CacheKeys |-> NeverSet]
    /\ used_at = [k \in CacheKeys |-> 0]
    /\ PipelineIdle /\ ThreadsIdle /\ GateIdle

\* the (trimmed text, mode, clamped limit) of a request
Triple(rawText, mode, rawLimit) ==
    [text |-> Strip(rawText), mode |-> mode, limit |-> ClampLimit(rawLimit)]

\* line 216: key = make_cache_key(text, mode, str(limit))
RequestKey(tr) == make_cache_key(<<tr.text, tr.mode, IntToStr(tr.limit)>>)

\* one request: a hit returns the stored list, a miss stores the list made
\* for this request
KeyedRequest(rawText, mode, rawLimit) ==
    /\ ops < MaxOps
    /\ \E tr \in {Triple(rawText, mode, rawLimit)} :
       \E got \in {LRUGet(lru, RequestKey(tr), clock)} :
          /\ lru' = IF got.found THEN got.cache
                    ELSE LRUSet(got.cache, RequestKey(tr), tr, clock,
                                lru_conf.default_ttl, lru_conf.max_size)
          /\ last' = [op |-> IF got.found THEN "hit" ELSE "miss", key |-> RequestKey(tr),
                      found |-> got.found, result |-> IF got.found THEN got.value ELSE tr,
                      triple |-> tr]
    /\ ops' = ops + 1
    /\ UNCHANGED <<lru_conf, clock, last_set, used_at>>
    /\ UNCHANGED <<pipe_vars, thread_vars, gate_vars>>

NextKey == \E rawText \in KeyTexts, mode \in KeyModes, rawLimit \in KeyLimits :
               KeyedRequest(rawText, mode, rawLimit)

SpecKey == KeyInit /\ [][NextKey]_vars

\* C20: cache keys are unambiguous: requests whose (trimmed text, mode,
\* clamped limit) differ never share a key, so a hit returns a list that was
\* stored by a request with the identical triple.
C20_KeysUnambiguous ==
    /\ last.op # "none" =>
          \A e \in Entries(lru) : e.key = RequestKey(last.triple) => e.value = last.triple
    /\ last.op = "hit" => last.result = last.triple

(***************************************************************************)
(* The parts of the pipeline that are functions of their arguments: the    *)
(* merge of lines 286-311 and the variant generator, each applied once to  *)
(* an input drawn from a bounded set, in a process with some hash seed     *)
(***************************************************************************)

MaxRankLen == 3

RankWords == {<<>>, W_ka, W_kaa, W_four, W_stack}
RankScores == {50, 100}
RankItems == {[word |-> w, score |-> sc] : w \in RankWords, sc \in RankScores}
RankInputs == UNION {[1..n -> RankItems] : n \in 0..MaxRankLen}

\* tokens: "kat", " a", blanks, " Kat " and the 64 characters "aeae...ae"
T_Kat == <<32, 75, 97, 116, 32>>
T_aeae == [i \in 1..MAX_TEXT_LEN |-> IF i % 2 = 1 THEN 97 ELSE 101]
VariantTexts == {T_kat, T_a, T_blank, T_Kat, T_aeae}

PureInit ==
    /\ response_cache = NewCache
    /\ variant_cache = NewCache
    /\ cache = NewCache
    /\ base_url = UrlUnset
    /\ runner = NoResponse
    /\ prim = "letters"
    /\ hash_seed \in 0..MaxSeed
    /\ now = 0
    /\ calls = 0
    /\ ret = NoCall
    /\ LRUIdle /\ ThreadsIdle /\ GateIdle

\* lines 286-311 applied to the list of candidates xs
MergeRank(xs) ==
    /\ ops = 0
    /\ \E final \in {MergeRankCap(xs, LimitDefault)} :
          last' = [op |-> "rank", input |-> xs, result |-> final]
    /\ ops' = 1
    /\ UNCHANGED <<lru, lru_conf, clock, last_set, used_at>>
    /\ UNCHANGED <<pipe_vars, thread_vars, gate_vars>>

\* _latin_variants(text, max_variants=64), line 323
LatinVariants(rawText) ==
    /\ ops = 0
    /\ \E variants \in {_latin_variants(hash_seed, rawText)} :
          last' = [op |-> "variants", input |-> rawText, result |-> variants]
    /\ ops' = 1
    /\ UNCHANGED <<lru, lru_conf, clock, last_set, used_at>>
    /\ UNCHANGED <<pipe_vars, thread_vars, gate_vars>>

NextPure ==
    \/ \E xs \in RankInputs : MergeRank(xs)
    \/ \E rawText \in VariantTexts : LatinVariants(rawText)

SpecPure == PureInit /\ [][NextPure]_vars

\* the position at which word w was first met
FirstSeen(xs, w) ==
    CHOOSE i \in 1..Len(xs) : xs[i].word = w /\ \A j \in 1..(i - 1) : xs[j].word # w

\* C23: the list returned on a miss is sorted by non-increasing score, and
\* suggestions of equal score stand in the order in which their words were
\* first met during the merge.
C23_SortedStable ==
    last.op = "rank" =>
        \A i, j \in 1..Len(last.result) :
            i < j =>
                /\ last.result[i].score >= last.result[j].score
                /\ last.result[i].score = last.result[j].score =>
                       FirstSeen(last.input, last.result[i].word)
                           < FirstSeen(last.input, last.result[j].word)

\* a merge of three candidates in which the sort moved the first one behind
\* two of equal score
C23_Witness ==
    /\ last.op = "rank"
    /\ Len(last.result) = 3
    /\ last.result[1].score = last.result[2].score
    /\ last.result[3].word = last.input[1].word

\* the token as the generator sees it: trimmed and lowercased
Token(rawText) == Lower(Strip(rawText))

\* C24: for every non-empty token of at most 64 characters the variant
\* generator returns at most 64 spellings, and the trimmed, lowercased token is
\* one of them.
C24_CapAndOriginal ==
    (last.op = "variants" /\ Token(last.input) # <<>>) =>
        /\ Len(last.result) <= max_variants
        /\ Token(last.input) \in SeqRange(last.result)

\* the token with the single occurrence at position i doubled in place
Doubled(text, i) == SubSeq(text, 1, i) \o <<text[i]>> \o SubSeq(text, i + 1, Len(text))

\* C25: for every position of the token that holds a short vowel the variant
\* generator returns the token with that one occurrence doubled in place, a
\* spelling one character longer than the token.
C25_VowelDoubled ==
    (last.op = "variants" /\ Len(last.result) < max_variants) =>
        \A i \in 1..Len(Token(last.input)) :
            Token(last.input)[i] \in LatinVowels =>
                Doubled(Token(last.input), i) \in SeqRange(last.result)

(***************************************************************************)
(* The per-token cache: translit_cached called for one token after         *)
(* another, as the loops of generate_ime_suggestions do within a request   *)
(* and across requests, with the clock advancing in between                *)
(***************************************************************************)

MaxTokenOps == 3

\* tokens: "kat" and "ku"
TokenTexts == {T_kat, <<107, 117>>}

TokenInit ==
    /\ response_cache = NewCache
    /\ variant_cache = NewCache
    /\ cache = NewCache
    /\ base_url = UrlUnset
    /\ runner = NoResponse
    /\ prim \in PrimModes
    /\ hash_seed = 0
    /\ now = 0
    /\ calls = 0
    /\ ret = NoCall
    /\ LRUIdle /\ ThreadsIdle /\ GateIdle

\* line 328: ck = make_cache_key("variant", token)
TokenKey(token) == make_cache_key(<<VariantTag, token>>)

\* lines 327-334: one call of translit_cached
Convert(token) ==
    /\ ops < MaxTokenOps
    /\ \E r \in {translit_cached(prim, variant_cache, token, now)} :
          /\ variant_cache' = r.vc
          /\ last' = [op |-> "convert", token |-> token, outs |-> r.outs,
                      raised |-> r.raised, called |-> r.called]
    /\ ops' = ops + 1
    /\ UNCHANGED <<response_cache, cache, base_url, prim, hash_seed, runner, now, calls, ret>>
    /\ UNCHANGED <<lru, lru_conf, clock, last_set, used_at>>
    /\ UNCHANGED <<thread_vars, gate_vars>>

\* time.time() advances between calls
TokenTick(d) ==
    /\ now + d <= MaxTime
    /\ now' = now + d
    /\ UNCHANGED <<response_cache, variant_cache, cache, base_url, prim, hash_seed, runner, calls, ret>>
    /\ UNCHANGED <<lru_vars, thread_vars, gate_vars>>

NextToken ==
    \/ \E token \in TokenTexts : Convert(token)
    \/ \E d \in {VARIANT_CACHE_TTL, VARIANT_CACHE_TTL + 1} : TokenTick(d)

SpecToken == TokenInit /\ [][NextToken]_vars

\* C22: a conversion of a token whose per-token cache entry is resident and
\* unexpired is served from that entry without invoking the primitive,
\* whatever output the primitive had returned for it.
C22_ServedFromCache ==
    [][(ops' = ops + 1 /\ LiveEntry(variant_cache, TokenKey(last'.token), now)) =>
          /\ ~ last'.called
          /\ ~ last'.raised
          /\ last'.outs = CachedValue(variant_cache, TokenKey(last'.token))]_vars

(***************************************************************************)
(* Concurrent requests.  The route handler and transliterate are           *)
(* coroutines of one event loop: a request runs until it awaits something  *)
(* that is not ready, and the loop then runs another request that is       *)
(* ready.  The runner call awaits the network; AksharaAdapter.transliterate*)
(* is declared async but calls the primitive directly.  A cache operation  *)
(* takes the instance's lock on entry and gives it back on exit.           *)
(***************************************************************************)

MaxTokens == 2

Tasks == {1, 2}

\* a request: its position and the number of tokens still to convert
NewTask == [pc |-> "new", left |-> 0]

LoopInit ==
    /\ response_cache = NewCache
    /\ variant_cache = NewCache
    /\ cache = NewCache
    /\ base_url \in {UrlUnset, UrlSet}
    /\ runner = NoResponse
    /\ prim = "letters"
    /\ hash_seed = 0
    /\ now = 0
    /\ calls = 0
    /\ ret = NoCall
    /\ threads = [t \in Tasks |-> NewTask]
    /\ lock_owner = 0
    /\ lin = NewCache
    /\ running = 0
    /\ LRUIdle /\ GateIdle

LoopFrame == UNCHANGED <<lin, pipe_vars, lru_vars, gate_vars>>

\* the loop is idle and picks this request: the handler runs up to line 217
Start(t) ==
    /\ threads[t].pc = "new"
    /\ running = 0
    /\ running' = t
    /\ threads' = [threads EXCEPT ![t].pc = "get"]
    /\ UNCHANGED lock_owner
    /\ LoopFrame

\* with self._lock: (entry), in response_cache.get or response_cache.set
CacheEnter(t) ==
    /\ running = t
    /\ threads[t].pc \in {"get", "set"}
    /\ LockFree(lock_owner, t)
    /\ lock_owner' = t
    /\ threads' = [threads EXCEPT ![t].pc = IF @ = "get" THEN "in_get" ELSE "in_set"]
    /\ UNCHANGED running
    /\ LoopFrame

\* with self._lock: (exit); after the get of a miss the runner stage follows
\* when the runner is enabled and has a client, else local generation
CacheLeave(t) ==
    /\ running = t
    /\ threads[t].pc \in {"in_get", "in_set"}
    /\ lock_owner' = 0
    /\ \E n \in 1..MaxTokens :
          threads' = [threads EXCEPT ![t] =
                         IF @.pc = "in_set" THEN [@ EXCEPT !.pc = "return"]
                         ELSE IF runner_enabled /\ client THEN [@ EXCEPT !.pc = "call_runner"]
                         ELSE [pc |-> "generate", left |-> n]]
    /\ UNCHANGED running
    /\ LoopFrame

\* line 239: await self.client.transliterate(text); the request is suspended
\* on the network and the loop is given back
SendRunner(t) ==
    /\ running = t
    /\ threads[t].pc = "call_runner"
    /\ running' = 0
    /\ threads' = [threads EXCEPT ![t].pc = "runner_wait"]
    /\ UNCHANGED lock_owner
    /\ LoopFrame

\* the runner's response, an error or the timeout arrives
RunnerAnswers(t) ==
    /\ threads[t].pc = "runner_wait"
    /\ threads' = [threads EXCEPT ![t].pc = "ready"]
    /\ UNCHANGED <<lock_owner, running>>
    /\ LoopFrame

\* the loop is idle and resumes the request behind line 239: lines 240-277
\* lead to the store when a runner candidate is kept, else to local generation
Resume(t) ==
    /\ threads[t].pc = "ready"
    /\ running = 0
    /\ running' = t
    /\ \/ threads' = [threads EXCEPT ![t].pc = "set"]
       \/ \E n \in 1..MaxTokens : threads' = [threads EXCEPT ![t] = [pc |-> "generate", left |-> n]]
    /\ UNCHANGED lock_owner
    /\ LoopFrame

\* line 332 and aksharamukha.py line 14: process("ISO", "Tamil", text) is
\* called directly; the loop stays with this request
CallPrimitive(t) ==
    /\ running = t
    /\ threads[t].pc = "generate"
    /\ threads' = [threads EXCEPT ![t].pc = "primitive"]
    /\ UNCHANGED <<lock_owner, running>>
    /\ LoopFrame

\* process returns; the next token follows, or the merge and the store
PrimitiveReturns(t) ==
    /\ running = t
    /\ threads[t].pc = "primitive"
    /\ threads' = [threads EXCEPT ![t] =
                      IF @.left > 1 THEN [pc |-> "generate", left |-> @.left - 1]
                      ELSE [pc |-> "set", left |-> 0]]
    /\ UNCHANGED <<lock_owner, running>>
    /\ LoopFrame

\* line 320: the handler returns and the loop is given back
Finish(t) ==
    /\ running = t
    /\ threads[t].pc = "return"
    /\ running' = 0
    /\ threads' = [threads EXCEPT ![t].pc = "done"]
    /\ UNCHANGED lock_owner
    /\ LoopFrame

NextLoop ==
    \E t \in Tasks :
        \/ Start(t)
        \/ CacheEnter(t)
        \/ CacheLeave(t)
        \/ SendRunner(t)
        \/ RunnerAnswers(t)
        \/ Resume(t)
        \/ CallPrimitive(t)
        \/ PrimitiveReturns(t)
        \/ Finish(t)

SpecLoop == LoopInit /\ [][NextLoop]_vars

\* the request is inside the primitive or waiting on the remote runner
InCall(t) == threads[t].pc \in {"primitive", "runner_wait"}

\* the request could take its next step if the loop were given to it
Runnable(t) == threads[t].pc \in {"new", "ready"}

\* C26: while a request is inside the conversion primitive or waiting on the
\* remote runner it holds no cache lock and does not keep the event loop, so
\* every other request that is ready to run can take its next step.
C26_OthersUnaffected ==
    \A t \in Tasks :
        InCall(t) =>
            /\ lock_owner # t
            /\ \A u \in Tasks \ {t} : Runnable(u) => running # t

====
